---- MODULE Spec2Model ----
(***************************************************************************)
(* Event reconnection and deduplication core of the Misskey bot:           *)
(*   src/src/streaming.py  StreamingClient (push transport)                *)
(*   src/src/bot.py        MisskeyBot (supervisor, pull loop, handlers)    *)
(*   src/src/persistence.py PersistenceManager (ledger)                    *)
(*   src/src/utils.py      retry_async                                     *)
(*                                                                         *)
(* Scheduling is asyncio's: one task runs at a time and is only left at an *)
(* await.  An action is the code between two awaits of one task.  A ledger *)
(* read (SELECT), a ledger write (INSERT) and the plugin/LLM/reply part of *)
(* a handler are awaits with a position of their own.                      *)
(***************************************************************************)
EXTENDS Integers, Sequences, FiniteSets, TLC

\* ------------------------------------------------------------ bounds
\* Event ids the server can deliver: 1..NumIds.
NumIds == 3
\* Capacity of processed_mentions / processed_messages (MAX_CACHE = 500 in
\* src/src/constants.py:46, scaled down so that eviction happens).
CacheCap == 1
\* Capacity of StreamingClient.processed_events (MAX_PROCESSED_ITEMS_CACHE,
\* imported in src/src/streaming.py:15, scaled down likewise).
WindowCap == 1
\* Process runs over one ledger.
MaxRuns == 2
\* Deliveries of an id stop once its handler ran this many times in a run.
MaxHandled == 2
\* Injected failures (an I/O error of the ledger, an exception of the API
\* client or of a plugin), malformed frames and cleanup jobs in a behaviour.
MaxIncidents == 1
\* Channel ids (uuid4) a client generates in the client-only specification.
MaxChannelIds == 3
\* Event ids 1..MaxEventId where the handlers are followed with the data of
\* the event; 0 stands for a missing id.
MaxEventId == 1
\* Notes on the server where create_note is followed.
MaxNotes == 3
\* Calls of start_polling that start a loop on one PollingManager.
MaxLoops == 3
\* max_connections of the ConnectionPool.
MaxConnections == 2
\* Callers of get_connection holding or awaiting a connection at one time.
MaxCallers == 4
\* UTC days followed after construction, and the hours a day is divided in.
MaxDays == 2
HoursPerDay == 2
\* bot.auto_post.max_posts_per_day
MaxPostsPerDay == 2
\* The largest max_retries a retry_async wrapper is built with.
MaxRetries == 3

\* The retry bound of _start_websocket.  bot.py:30 imports it from
\* constants.py, which does not define it; the specification's example value.
WS_MAX_RETRIES == 5

Ids == 1..NumIds

\* ------------------------------------------------------------ events
\* An event's kind is fixed by its id: odd ids are mentions, even ids chats.
EventKind(i) == IF i % 2 = 1 THEN "mention" ELSE "message"

\* The value standing for a createdAt that is absent or cannot be parsed.
NoTimestamp == 0

\* createdAt of an event, and startup_time of a run, on one clock.  Event 1
\* is created exactly at the first startup, event 2 during the first run;
\* the others carry no usable createdAt.
CreatedAt(i) == IF i = 1 THEN 2 ELSE IF i = 2 THEN 3 ELSE NoTimestamp

StartupTime(r) == 2 * r

\* ------------------------------------------------------------ LRUCache
Range(s) == {s[n] : n \in 1..Len(s)}

\* cachetools.LRUCache as the sequence of its keys, least recently used
\* first.  `key in cache` does not touch the order.
LRUContains(c, k) == k \in Range(c)

\* cache[k] = True: a new key evicts the least recently used key when the
\* cache is full; the key becomes the most recently used.
LRUInsert(c, k, cap) ==
    IF k \in Range(c)
    THEN Append(SelectSeq(c, LAMBDA x : x # k), k)
    ELSE IF Len(c) >= cap THEN Append(Tail(c), k) ELSE Append(c, k)

RECURSIVE LRUUpdate(_, _, _)
\* cache.update({k: True for k in keys}): the keys are set in order.
LRUUpdate(c, keys, cap) ==
    IF keys = <<>> THEN c
    ELSE LRUUpdate(LRUInsert(c, Head(keys), cap), Tail(keys), cap)

\* ------------------------------------------------------------ ledger
\* A table of processed ids as the sequence of its rows in insertion order.
\* INSERT OR IGNORE: a second insert of an id changes nothing.
\* A plain INSERT without the UNIQUE column, for comparison: every insert
\* adds a row.
LedgerInsertAlways(t, k) == Append(t, k)

\* INSERT OR IGNORE on the UNIQUE id column.
LedgerInsert(t, k) == IF k \in Range(t) THEN t ELSE Append(t, k)

IsProcessed(t, k) == k \in Range(t)

RECURSIVE Reverse(_)
Reverse(s) == IF s = <<>> THEN <<>> ELSE Append(Reverse(Tail(s)), Head(s))

\* SELECT ... ORDER BY processed_at DESC LIMIT limit: most recent first.
GetRecent(t, limit) ==
    LET r == Reverse(t) IN SubSeq(r, 1, IF Len(r) < limit THEN Len(r) ELSE limit)

\* ------------------------------------------------------------ StreamingClient
\* The client as a record of its fields.  ws_connection is "none" (None),
\* "open", "broken" (the transport is lost but ws.closed is still False: a
\* send raises) or "closed" (ws.closed).  A task field is "none", "run" (the
\* task is in flight) or "done" (finished or cancelled).  channels holds the
\* ids of the subscriptions (ChannelType has the one member MAIN); uuids
\* counts the uuid4 values drawn so far, the next channel id being uuids + 1.
NewStreaming ==
    [running |-> FALSE, ws_connection |-> "none", session |-> "none",
     heartbeat_task |-> "none", message_task |-> "none",
     channels |-> {}, processed_events |-> <<>>, uuids |-> 0]

WsUsable(sc) == sc.ws_connection \in {"open", "broken"}

IsConnected(sc) == WsUsable(sc) /\ sc.running

Min(S) == CHOOSE x \in S : \A y \in S : x <= y

\* A faulty connect_channel, for comparison: the lookup of an existing
\* subscription of the channel type is left out.
ConnectChannelNoLookup(sc) ==
    IF sc.ws_connection = "open"
    THEN [sc |-> [sc EXCEPT !.channels = @ \cup {sc.uuids + 1}, !.uuids = @ + 1],
          ret |-> "ok", id |-> sc.uuids + 1, frames |-> 1]
    ELSE [sc |-> [sc EXCEPT !.uuids = @ + 1], ret |-> "raise", id |-> 0,
          frames |-> 0]

\* connect_channel(MAIN).  The result names the client afterwards, the
\* channel id returned (0 with ret = "raise", an exception) and the connect
\* frames sent.
ConnectChannel(sc) ==
    IF sc.channels # {}
    THEN [sc |-> sc, ret |-> "ok", id |-> Min(sc.channels), frames |-> 0]
    ELSE IF sc.ws_connection = "open"
    THEN [sc |-> [sc EXCEPT !.channels = @ \cup {sc.uuids + 1}, !.uuids = @ + 1],
          ret |-> "ok", id |-> sc.uuids + 1, frames |-> 1]
    ELSE [sc |-> [sc EXCEPT !.uuids = @ + 1], ret |-> "raise", id |-> 0,
          frames |-> 0]

\* disconnect_channel(MAIN): a disconnect frame per subscription while the
\* socket is usable (a send on a broken socket raises before anything is
\* removed), then the subscriptions are removed.
DisconnectChannel(sc) ==
    IF sc.channels # {} /\ sc.ws_connection = "broken"
    THEN [sc |-> sc, ret |-> "raise"]
    ELSE [sc |-> [sc EXCEPT !.channels = {}], ret |-> "ok"]

\* A faulty _cleanup_failed_connection, for comparison: it also clears
\* running.
CleanupFailedConnectionClearsRunning(sc) ==
    [sc EXCEPT !.ws_connection = "none", !.session = "none",
               !.heartbeat_task = "none", !.message_task = "none",
               !.running = FALSE]

\* _cleanup_failed_connection
CleanupFailedConnection(sc) ==
    [sc EXCEPT !.ws_connection = "none", !.session = "none",
               !.heartbeat_task = "none", !.message_task = "none"]

\* _connect_websocket; ok is whether session.ws_connect succeeds.
ConnectWebsocket(sc, ok) ==
    IF ok
    THEN [sc |-> [sc EXCEPT !.session = "open", !.ws_connection = "open",
                            !.heartbeat_task = "run", !.message_task = "run"],
          ret |-> "ok"]
    ELSE [sc |-> CleanupFailedConnection(sc), ret |-> "raise"]

\* What the network does to one connect(): the socket connects and stays up
\* ("up"), session.ws_connect fails ("down"), or the socket connects and the
\* transport is lost before the connect frame is sent ("lost").
NetOutcomes == {"up", "down", "lost"}

\* connect(): returns at once when running is set; otherwise sets running,
\* connects the socket and subscribes to the main channel.  sockets counts
\* the calls of session.ws_connect.
Connect(sc, net) ==
    IF sc.running
    THEN [sc |-> sc, ret |-> "ok", sockets |-> 0, frames |-> 0]
    ELSE LET w == ConnectWebsocket([sc EXCEPT !.running = TRUE], net # "down") IN
         IF w.ret = "raise"
         THEN [sc |-> w.sc, ret |-> "raise", sockets |-> 1, frames |-> 0]
         ELSE LET c == ConnectChannel(
                           IF net = "lost"
                           THEN [w.sc EXCEPT !.ws_connection = "broken"]
                           ELSE w.sc)
              IN [sc |-> c.sc, ret |-> c.ret, sockets |-> 1, frames |-> c.frames]

\* _disconnect_all_channels: a disconnect frame per subscription while the
\* socket is there and not closed (the first send on a broken socket
\* raises), then the table is cleared.  frames counts the frames sent.
DisconnectAllChannels(sc) ==
    IF sc.channels # {} /\ sc.ws_connection = "broken"
    THEN [sc |-> sc, ret |-> "raise", frames |-> 0]
    ELSE [sc |-> [sc EXCEPT !.channels = {}], ret |-> "ok",
          frames |-> IF WsUsable(sc) THEN Cardinality(sc.channels) ELSE 0]

\* disconnect()
Disconnect(sc) ==
    IF ~sc.running
    THEN [sc |-> sc, ret |-> "ok", frames |-> 0]
    ELSE LET d == DisconnectAllChannels([sc EXCEPT !.running = FALSE]) IN
         IF d.ret = "raise" THEN d
         ELSE [sc |-> [d.sc EXCEPT !.processed_events = <<>>], ret |-> "ok",
               frames |-> d.frames]

CancelTask(t) == IF t = "run" THEN "done" ELSE t

\* _close_websocket without the cancellation of the two tasks, for
\* comparison.
CloseWebsocketNoCancel(sc) ==
    [sc |-> [sc EXCEPT !.ws_connection = "none", !.session = "none"],
     closes |-> IF WsUsable(sc) THEN 1 ELSE 0]

\* _close_websocket: both tasks are cancelled and awaited, the socket is
\* closed if it is not closed yet, the session is closed, and the four
\* fields are released.  closes counts the calls of ws.close().
CloseWebsocket(sc) ==
    [sc |-> [sc EXCEPT !.heartbeat_task = "none", !.message_task = "none",
                       !.ws_connection = "none", !.session = "none"],
     closes |-> IF WsUsable(sc) THEN 1 ELSE 0]

\* _is_duplicate_event without the lookup: no event is a duplicate.
IsDuplicateEventNoLookup(sc, i) == FALSE

\* _is_duplicate_event / _track_event
IsDuplicateEvent(sc, i) == LRUContains(sc.processed_events, i)

TrackEvent(sc, i) ==
    [sc EXCEPT !.processed_events = LRUInsert(@, i, WindowCap)]

\* The events a channel frame carries: its "type" ("none": the key is
\* missing or empty), whether fromUserId and toUserId are present and
\* non-empty, and whether text is not None.
EventTypes == {"none", "mention", "reply", "chat", "notification"}

Events ==
    [type : EventTypes, fromUserId : BOOLEAN, toUserId : BOOLEAN, text : BOOLEAN]

\* The type inference of _handle_channel_message with the test of the text
\* left out, for comparison.
EventTypeNoText(e) ==
    IF e.type = "none" /\ e.fromUserId /\ e.toUserId THEN "chat" ELSE e.type

\* _handle_channel_message, the type of the event: an event without a type
\* that has fromUserId, toUserId and a text is a "chat" event.
EventType(e) ==
    IF e.type = "none" /\ e.fromUserId /\ e.toUserId /\ e.text
    THEN "chat" ELSE e.type

\* _dispatch_event on the main channel: the handler list that is called
\* ("none": no handler is called).
HandleMainChannelEvent(type) ==
    IF type \in {"mention", "reply"} THEN "mention"
    ELSE IF type = "chat" THEN "message"
    ELSE "none"

\* _handle_channel_message without the lookup of the channel id, for
\* comparison.
HandleChannelMessageAnyChannel(sc, ch, i, e) ==
    IF i # 0 /\ IsDuplicateEvent(sc, i)
    THEN [sc |-> sc, handler |-> "none"]
    ELSE [sc |-> IF i # 0 THEN TrackEvent(sc, i) ELSE sc,
          handler |-> HandleMainChannelEvent(EventType(e))]

\* _handle_channel_message: a frame of channel id ch carrying the event e of
\* id i (0: the event has no id).  A frame of an unknown channel returns
\* first; a duplicate is dropped; any other event is tracked and dispatched.
HandleChannelMessage(sc, ch, i, e) ==
    IF ch \notin sc.channels
    THEN [sc |-> sc, handler |-> "none"]
    ELSE IF i # 0 /\ IsDuplicateEvent(sc, i)
    THEN [sc |-> sc, handler |-> "none"]
    ELSE [sc |-> IF i # 0 THEN TrackEvent(sc, i) ELSE sc,
          handler |-> HandleMainChannelEvent(EventType(e))]

\* The loop conditions of _heartbeat and _handle_messages.
LoopCondition(sc) == sc.running /\ WsUsable(sc)

\* ------------------------------------------------------------ state
VARIABLES
    streaming,   \* the StreamingClient
    bot,         \* MisskeyBot: running, the two caches, its tasks, and the
                 \* position (pc) of the task that runs start() and stop()
    db,          \* the ledger: the processed_mentions/processed_messages tables
    cfg,         \* bot.response.mention_enabled / chat_enabled
    msgH,        \* what the message task (_handle_messages) is doing
    pollH,       \* what the poll task (_poll_mentions) is doing
    run,         \* the process run over this ledger, 1..MaxRuns
    handled,     \* per id: handler side effects triggered in this run
    handledPrev, \* ids whose handler side effects ran in an earlier run
    obs,         \* counters of socket and task operations in this run
    api,         \* the last call of the client's interface and its result
    req,         \* the handler invocation followed call by call (its API
                 \* requests, what it posted, what became of the loop)
    ev,          \* the last event handed to a handler of the bot with its
                 \* data, and what the handler did with it
    notes,       \* the notes of the server with their visibility
    poller,      \* a PollingManager and the loops started on it
    pool,        \* a ConnectionPool and the callers of its methods
    autopost,    \* the auto-post job: posts_today, today, and the clock
    retry        \* a call of a function wrapped by retry_async

\* The components that are followed on their own.
aside == <<ev, notes, poller, pool, autopost, retry>>

vars ==
    <<streaming, bot, db, cfg, msgH, pollH, run, handled, handledPrev, obs,
      api, req, aside>>

\* The state of MisskeyBot and its client, left alone by the components
\* that are followed on their own.
core ==
    <<streaming, bot, db, cfg, msgH, pollH, run, handled, handledPrev, obs,
      api, req>>

\* No frame: the channel id and the event of the last frame received.
NoFrame ==
    [channel |-> 0,
     event |-> [type |-> "none", fromUserId |-> FALSE, toUserId |-> FALSE,
                text |-> FALSE]]

NoCall ==
    [call |-> "none", ret |-> "ok", id |-> 0, frames |-> 0, frame |-> NoFrame,
     sockets |-> 0]

Idle == [pc |-> "idle", id |-> 0]

\* No handler invocation is being followed.
NoRequest ==
    [pc |-> "idle", kind |-> "none", transport |-> "none", attempt |-> 0,
     sleeping |-> FALSE, last |-> "none", failed |-> "none",
     posted |-> {}, loop |-> "run",
     notes |-> 0]     \* notes and messages the server created for the handler

NewBot ==
    [running |-> FALSE, pc |-> "new", attempt |-> 0,
     maintain |-> "none", poll_tasks |-> 0,
     processed_mentions |-> <<>>, processed_messages |-> <<>>]

NewObs ==
    [connectCalls |-> 0, socketAttempts |-> 0, socketOk |-> 0,
     connectFrames |-> 0, closeCalls |-> 0, pollStarted |-> FALSE,
     stopInFlight |-> FALSE,
     lastFrame |-> "none",   \* the last frame was dropped as "dup"/"malformed"
     authError |-> FALSE,    \* the API client raised AuthenticationError
     failed |-> 0,           \* id of the last handler that failed mid-flight
     incidents |-> 0,        \* failures, malformed frames, cleanup jobs so far
     apiClosed |-> FALSE,    \* misskey.close() has been called
     inFlight |-> 0,         \* handler invocations of the message task that
                             \* have started and not ended
     warmup |-> "none"]      \* how the reads of the warm-up ended

\* n more incidents fit in the run; the counters after them.
CanFail(n) == obs.incidents + n <= MaxIncidents

Incident(ob, n) == [ob EXCEPT !.incidents = @ + n]

Cost(failure) == IF failure THEN 1 ELSE 0

\* The data of an event as the handlers read it: its id (0: the id is
\* missing or empty), its kind, its sender as extract_user_id finds it ("bot":
\* the bot's own account, "none": no user id), whether it has a text, and
\* whether its createdAt is after the startup time.
EventData ==
    [id : 0..MaxEventId, kind : {"mention", "message"},
     sender : {"bot", "other", "none"}, text : BOOLEAN, fresh : BOOLEAN]

\* No event has been handed to a handler yet.  bot_user_id is "unset" before
\* _initialize_services, then "bot" (the id get_current_user returned) or
\* "none" (None: get_current_user failed).  marked: _mark_processed was
\* called for the event; responds: the plugin call, the generation and the
\* reply were started for it.
NoDelivery ==
    [bot_user_id |-> "unset", path |-> "none",
     event |-> [id |-> 0, kind |-> "mention", sender |-> "none",
                text |-> FALSE, fresh |-> FALSE],
     marked |-> FALSE, responds |-> FALSE]

\* PollingManager.__init__: running, and the loops (_poll_mentions) started
\* so far, each "polling" (in poll_once before its sleep), "sleeping" (in an
\* asyncio.sleep) or "ended".
NewPollingManager == [running |-> FALSE, loops |-> <<>>]

\* ConnectionPool.__init__: _created_connections, the connections in the
\* queue _pool (idle), the connections handed to callers (out) and the callers
\* suspended in `await self._pool.get()` (waiting).  Idle and handed-out
\* connections are open.
NewConnectionPool == [created |-> 0, idle |-> 0, out |-> 0, waiting |-> 0]

\* No call of a retry_async wrapper is under way.  A call has max_retries
\* (n), whether retryable_exceptions was given (filtered), the invocations of
\* the wrapped function so far, the outcome of the last one and its position.
NoRetry ==
    [pc |-> "idle", n |-> 1, filtered |-> FALSE, invocations |-> 0,
     last |-> "none"]

\* MisskeyBot.__init__: posts_today and today (a UTC date), with the UTC
\* clock (day, hour), the UTC hour at which the scheduler's cron jobs of
\* hour 0 fire (-1 before the jobs are added), the position of _auto_post and
\* the auto-posts created on each UTC day.
NewAutoPost ==
    [posts_today |-> 0, today |-> 0, day |-> 0, hour |-> 0, cron_hour |-> -1,
     pc |-> "idle", created |-> [d \in 0..MaxDays |-> 0]]

Init ==
    /\ streaming = NewStreaming
    /\ bot = NewBot
    /\ db = [mentions |-> <<>>, messages |-> <<>>]
    /\ cfg \in [mention_enabled : BOOLEAN, chat_enabled : BOOLEAN]
    /\ msgH = Idle
    /\ pollH = Idle
    /\ run = 1
    /\ handled = [i \in Ids |-> 0]
    /\ handledPrev = {}
    /\ obs = NewObs
    /\ api = NoCall
    /\ req = NoRequest
    /\ ev = NoDelivery
    /\ notes = <<>>
    /\ poller = NewPollingManager
    /\ pool = NewConnectionPool
    /\ autopost = NewAutoPost
    /\ retry = NoRetry

\* The cache and the table of an event kind.
CacheOf(b, kind) ==
    IF kind = "mention" THEN b.processed_mentions ELSE b.processed_messages

TableOf(d, kind) == IF kind = "mention" THEN d.mentions ELSE d.messages

Enabled(kind) ==
    IF kind = "mention" THEN cfg.mention_enabled ELSE cfg.chat_enabled

\* ------------------------------------------------------------ MisskeyBot
\* A faulty startup gate, for comparison: an event created at the startup
\* instant passes.
IsMessageAtOrAfterStartup(i, r) == CreatedAt(i) >= StartupTime(r)

\* _is_message_after_startup / _compare_message_time: strictly after.
IsMessageAfterStartup(i, r) ==
    IF CreatedAt(i) = NoTimestamp THEN FALSE ELSE CreatedAt(i) > StartupTime(r)

\* _load_recent_processed_items: the MAX_CACHE most recent rows of each
\* table are put in the caches, most recent first; a failed read leaves
\* the caches empty.
LoadRecentProcessedItems(b, d, ok) ==
    IF ok
    THEN [b EXCEPT
            !.processed_mentions =
                LRUUpdate(@, GetRecent(d.mentions, CacheCap), CacheCap),
            !.processed_messages =
                LRUUpdate(@, GetRecent(d.messages, CacheCap), CacheCap)]
    ELSE b

\* The ledger write of _mark_processed, as it lands in the table.
MarkLedger(d, i) ==
    IF EventKind(i) = "mention"
    THEN [d EXCEPT !.mentions = LedgerInsert(@, i)]
    ELSE [d EXCEPT !.messages = LedgerInsert(@, i)]

\* The cache insert of _mark_processed, after the write returned.
MarkCache(b, i) ==
    IF EventKind(i) = "mention"
    THEN [b EXCEPT !.processed_mentions = LRUInsert(@, i, CacheCap)]
    ELSE [b EXCEPT !.processed_messages = LRUInsert(@, i, CacheCap)]

\* How the reads of the warm-up end.  "ok": the rows are returned.
\* "caught": an exception of the except tuple of
\* _load_recent_processed_items (ValueError, TypeError, KeyError, OSError).
\* "raise": the query fails with an sqlite3.Error, which is none of
\* these and which _execute_fetchall passes on: it leaves
\* _load_recent_processed_items, _initialize_services and start().
WarmUpReads == {"ok", "caught", "raise"}

\* start(): running is set; _initialize_services asks for the current user
\* (an AuthenticationError is caught and logged, bot_user_id stays None) and
\* warms the caches.  When the warm-up raises, start() ends there, before
\* _setup_scheduler and _setup_streaming ("start_failed"), and the finally
\* block of main() calls stop().
Start ==
    /\ bot.pc = "new"
    /\ \E read \in WarmUpReads, auth \in BOOLEAN :
         /\ CanFail(Cost(read # "ok") + Cost(auth))
         /\ bot' = IF read = "raise"
                   THEN [bot EXCEPT !.running = TRUE, !.pc = "start_failed"]
                   ELSE LoadRecentProcessedItems(
                            [bot EXCEPT !.running = TRUE, !.pc = "connecting"],
                            db, read = "ok")
         /\ obs' = Incident([obs EXCEPT !.authError = @ \/ auth,
                                        !.warmup = read],
                            Cost(read # "ok") + Cost(auth))
    /\ UNCHANGED <<streaming, db, cfg, msgH, pollH, run, handled, handledPrev, api, req, aside>>

\* Two faulty choices, for comparison.  The first starts the poll task and
\* keeps trying the socket; the second starts the poll task next to the
\* supervisor of a connected client.
SetupStreamingKeepsTrying(b, sc, raised) ==
    IF ~raised /\ IsConnected(sc)
    THEN [b EXCEPT !.maintain = "run", !.pc = "started"]
    ELSE [b EXCEPT !.poll_tasks = @ + 1, !.attempt = 0]

SetupStreamingStartsBoth(b, sc, raised) ==
    IF ~raised /\ IsConnected(sc)
    THEN [b EXCEPT !.maintain = "run", !.poll_tasks = @ + 1, !.pc = "started"]
    ELSE [b EXCEPT !.poll_tasks = @ + 1, !.pc = "started"]

\* _setup_streaming's choice once _start_websocket is over: the supervisor
\* task when the client is connected, the poll task otherwise.
SetupStreamingTasks(b, sc, raised) ==
    IF ~raised /\ IsConnected(sc)
    THEN [b EXCEPT !.maintain = "run", !.pc = "started"]
    ELSE [b EXCEPT !.poll_tasks = @ + 1, !.pc = "started"]

\* One attempt of retry_async(max_retries = WS_MAX_RETRIES) around
\* streaming.connect() in _start_websocket, and what follows a return: a
\* returned call ends the loop, an exception is retried after a sleep until
\* the last attempt, whose exception _setup_streaming catches.
StartWebsocketAttempt ==
    /\ bot.pc = "connecting"
    /\ \E net \in NetOutcomes :
         LET r == Connect(streaming, net)
             b == IF r.ret = "ok"
                  THEN SetupStreamingTasks(bot, r.sc, FALSE)
                  ELSE IF bot.attempt < WS_MAX_RETRIES - 1
                  THEN [bot EXCEPT !.attempt = @ + 1]
                  ELSE SetupStreamingTasks(bot, r.sc, TRUE)
         IN
         /\ streaming' = r.sc
         /\ bot' = b
         /\ obs' = [obs EXCEPT
                      !.connectCalls = @ + 1,
                      !.socketAttempts = @ + r.sockets,
                      !.socketOk = @ + (IF r.sockets = 1 /\ net # "down" THEN 1 ELSE 0),
                      !.connectFrames = @ + r.frames,
                      !.pollStarted = @ \/ b.poll_tasks > bot.poll_tasks]
    /\ UNCHANGED <<db, cfg, msgH, pollH, run, handled, handledPrev, api, req, aside>>

\* _maintain_websocket: the loop sleeps while the bot runs and the client is
\* connected, and the task returns when it does not.  The except branch that
\* reconnects is entered on an exception of the loop, which sleep and
\* is_connected do not raise.
MaintainWebsocket ==
    /\ bot.maintain = "run"
    /\ bot' = IF bot.running /\ IsConnected(streaming)
              THEN bot ELSE [bot EXCEPT !.maintain = "done"]
    /\ UNCHANGED <<streaming, db, cfg, msgH, pollH, run, handled, handledPrev, obs, api, req, aside>>

\* ------------------------------------------------------------ the network
\* The transport is lost; ws.closed is not set until a receive notices.
NetFail ==
    /\ streaming.ws_connection = "open"
    /\ streaming' = [streaming EXCEPT !.ws_connection = "broken"]
    /\ UNCHANGED <<bot, db, cfg, msgH, pollH, run, handled, handledPrev, obs, api, req, aside>>

\* _heartbeat: the task ends when the loop condition fails or the ping
\* cannot be sent.
Heartbeat ==
    /\ streaming.heartbeat_task = "run"
    /\ streaming' =
         IF LoopCondition(streaming) /\ streaming.ws_connection = "open"
         THEN streaming
         ELSE [streaming EXCEPT !.heartbeat_task = "done"]
    /\ UNCHANGED <<bot, db, cfg, msgH, pollH, run, handled, handledPrev, obs, api, req, aside>>

\* ------------------------------------------------------------ handlers
\* Where a task is inside the dispatch of one event (its id in the record):
\*   "pcheck"   _process_polled_items awaits the ledger read of the item;
\*   "check"    _handle_message awaits the ledger read (the handler runs);
\*   "mark"     the handler awaits the ledger write of _mark_processed;
\*   "markonly" _process_polled_items awaits that write for an item that is
\*              not after startup (no handler);
\*   "respond"  the plugin call, the LLM generation and the reply.

\* _handle_mention up to its first await.
HandleMention(i) == IF ~cfg.mention_enabled THEN "return" ELSE "mark"

\* _handle_message up to its first await.
HandleMessage(i) ==
    IF ~cfg.chat_enabled THEN "return"
    ELSE IF LRUContains(bot.processed_messages, i) THEN "return"
    ELSE "check"

\* _handle_message once is_message_processed has returned (or raised).
HandleMessageChecked(i, readOk) ==
    IF ~readOk THEN "raise"
    ELSE IF IsProcessed(db.messages, i) THEN "return"
    ELSE "mark"

\* The handler registered for an event's kind.
Handler(i) ==
    IF EventKind(i) = "mention" THEN HandleMention(i) ELSE HandleMessage(i)

\* _handle_messages evaluates its loop condition after each frame.
AfterFrame(sc) ==
    IF LoopCondition(sc) THEN sc ELSE [sc EXCEPT !.message_task = "done"]

\* _handle_messages calls receive() with every handler fired by a frame in
\* no task of its own, for comparison.
ReceiveReadyAlways(h) == TRUE

\* _handle_messages is at `await self.ws_connection.receive()`: the chain
\* _process_message ... _call_handlers is awaited, so the loop reads the
\* next frame only when no handler it called is pending.
ReceiveReady(h) == h = Idle

\* A channel frame for event i arrives on the subscription
\* (_handle_channel_message): a tracked id is dropped; otherwise the id is
\* tracked and the event goes to the handler of its kind.
RecvEvent(i) ==
    /\ streaming.message_task = "run"
    /\ ReceiveReady(msgH)
    /\ streaming.ws_connection = "open"
    /\ streaming.channels # {}
    /\ handled[i] < MaxHandled
    /\ IF IsDuplicateEvent(streaming, i)
       THEN /\ streaming' = AfterFrame(streaming)
            /\ msgH' = msgH
            /\ obs' = [obs EXCEPT !.lastFrame = "dup"]
       ELSE IF Handler(i) = "return"
       THEN /\ streaming' = AfterFrame(TrackEvent(streaming, i))
            /\ msgH' = msgH
            /\ obs' = [obs EXCEPT !.lastFrame = "none"]
       ELSE /\ streaming' = TrackEvent(streaming, i)
            /\ msgH' = [pc |-> Handler(i), id |-> i]
            /\ obs' = [obs EXCEPT !.lastFrame = "none", !.inFlight = @ + 1]
    /\ UNCHANGED <<bot, db, cfg, pollH, run, handled, handledPrev, api, req, aside>>

\* Text frames that are no channel event.  "undecodable": json.loads raises
\* JSONDecodeError, which _handle_messages catches around _process_message.
\* "no_type": a JSON object without a known type, logged by _process_message.
\* "not_object": valid JSON that is no object (a list, a string, a number,
\* null), or a channel frame whose body is no object: data.get / body.get
\* raises AttributeError, which the outer `except Exception` of
\* _handle_messages answers with break.
MalformedFrames == {"undecodable", "no_type", "not_object"}

\* Whether _handle_messages goes on to the next frame after a frame of the
\* given kind.
LoopSurvivesFrame(kind) == kind # "not_object"

\* A text frame that is no channel event arrives.
RecvMalformed(kind) ==
    /\ streaming.message_task = "run"
    /\ ReceiveReady(msgH)
    /\ streaming.ws_connection = "open"
    /\ streaming' = IF LoopSurvivesFrame(kind)
                    THEN AfterFrame(streaming)
                    ELSE [streaming EXCEPT !.message_task = "done"]
    /\ CanFail(1)
    /\ obs' = Incident([obs EXCEPT !.lastFrame = "malformed"], 1)
    /\ UNCHANGED <<bot, db, cfg, msgH, pollH, run, handled, handledPrev, api, req, aside>>

\* The ledger read of _handle_message returns in the message task.
\* _call_handlers swallows the exception of a failed read.
MsgCheckDone ==
    /\ streaming.message_task = "run"
    /\ msgH.pc = "check"
    /\ \E readOk \in BOOLEAN :
         LET o == HandleMessageChecked(msgH.id, readOk) IN
         /\ CanFail(Cost(~readOk))
         /\ obs' = Incident([obs EXCEPT !.inFlight =
                                 IF o = "mark" THEN @ ELSE @ - 1],
                            Cost(~readOk))
         /\ msgH' = IF o = "mark" THEN [msgH EXCEPT !.pc = "mark"] ELSE Idle
         /\ streaming' = IF o = "mark" THEN streaming ELSE AfterFrame(streaming)
    /\ UNCHANGED <<bot, db, cfg, pollH, run, handled, handledPrev, api, req, aside>>

\* The ledger write of the message task's handler returns: the row is in
\* the table, the id is put in the cache and the plugin call starts; or the
\* write raises, which _call_handlers swallows.
MsgMarkDone ==
    /\ streaming.message_task = "run"
    /\ msgH.pc = "mark"
    /\ \E ok \in BOOLEAN :
         IF ok
         THEN /\ db' = MarkLedger(db, msgH.id)
              /\ bot' = MarkCache(bot, msgH.id)
              /\ handled' = [handled EXCEPT ![msgH.id] = @ + 1]
              /\ msgH' = [msgH EXCEPT !.pc = "respond"]
              /\ streaming' = streaming
              /\ obs' = obs
         ELSE /\ CanFail(1)
              /\ obs' = Incident([obs EXCEPT !.inFlight = @ - 1], 1)
              /\ msgH' = Idle
              /\ streaming' = AfterFrame(streaming)
              /\ UNCHANGED <<db, bot, handled>>
    /\ UNCHANGED <<cfg, pollH, run, handledPrev, api, req, aside>>

\* How the plugin call, generation and reply of a handler end.  "ok": the
\* reply is sent.  "caught": an exception of the handler's except tuple
\* (APIConnectionError, APIRateLimitError, ValueError, OSError) is logged.
\* "auth": the API client raises AuthenticationError, which the handler
\* catches and logs like the others.  "uncaught": an exception outside the
\* tuple leaves the handler.
RespondOutcomes == {"ok", "caught", "auth", "uncaught"}

\* The counters after a handler for id i ended with outcome o.
ObsAfterRespond(ob, i, o) ==
    [ob EXCEPT !.failed = IF o = "ok" THEN @ ELSE i,
               !.authError = @ \/ o = "auth"]

\* The plugin call, generation and reply of the message task's handler end;
\* _call_handlers swallows an exception that leaves the handler.
MsgRespondDone ==
    /\ streaming.message_task = "run"
    /\ msgH.pc = "respond"
    /\ msgH' = Idle
    /\ streaming' = AfterFrame(streaming)
    /\ \E o \in RespondOutcomes :
         /\ CanFail(Cost(o # "ok"))
         /\ obs' = Incident([ObsAfterRespond(obs, msgH.id, o)
                               EXCEPT !.inFlight = @ - 1], Cost(o # "ok"))
    /\ UNCHANGED <<bot, db, cfg, pollH, run, handled, handledPrev, api, req, aside>>

\* receive() returns a close frame, or notices the lost transport: the
\* socket is closed and the loop ends.
RecvClose ==
    /\ streaming.message_task = "run"
    /\ ReceiveReady(msgH)
    /\ WsUsable(streaming)
    /\ streaming' = [streaming EXCEPT !.ws_connection = "closed",
                                      !.message_task = "done"]
    /\ UNCHANGED <<bot, db, cfg, msgH, pollH, run, handled, handledPrev, obs, api, req, aside>>

\* _process_polled_items for one item, up to its first await.
ProcessPolledItem(i) ==
    IF LRUContains(CacheOf(bot, EventKind(i)), i) THEN "skip" ELSE "pcheck"

\* _process_polled_items without the startup gate, for comparison: every
\* item the ledger does not know goes to the handler.
ProcessPolledItemCheckedNoGate(i, readOk) ==
    IF ~readOk THEN "raise"
    ELSE IF IsProcessed(TableOf(db, EventKind(i)), i) THEN "skip"
    ELSE IF Handler(i) = "return" THEN "skip" ELSE Handler(i)

\* _process_polled_items once persistence_check has returned (or raised):
\* "skip", "raise", "markonly", or what the handler does first.
ProcessPolledItemChecked(i, readOk) ==
    IF ~readOk THEN "raise"
    ELSE IF IsProcessed(TableOf(db, EventKind(i)), i) THEN "skip"
    ELSE IF IsMessageAfterStartup(i, run)
    THEN (IF Handler(i) = "return" THEN "skip" ELSE Handler(i))
    ELSE "markonly"

\* The poll task ends: the loop is left, or an exception left it.
PollTaskEnds(b) == [b EXCEPT !.poll_tasks = @ - 1]

\* The poll loop takes the next item of the page it fetched; a page is
\* fetched for a kind only if the kind is enabled.
PollItem(i) ==
    /\ bot.poll_tasks > 0
    /\ pollH = Idle
    /\ Enabled(EventKind(i))
    /\ handled[i] < MaxHandled
    /\ pollH' = IF ProcessPolledItem(i) = "skip" THEN pollH
                ELSE [pc |-> "pcheck", id |-> i]
    /\ UNCHANGED <<streaming, bot, db, cfg, msgH, run, handled, handledPrev, obs, api, req, aside>>

\* A ledger read of the poll task returns: that of _process_polled_items,
\* or that of _handle_message called from it.  A read that raises is caught
\* nowhere on the way out of _poll_mentions.
PollCheckDone ==
    /\ bot.poll_tasks > 0
    /\ pollH.pc \in {"pcheck", "check"}
    /\ \E readOk \in BOOLEAN :
         LET o == IF pollH.pc = "pcheck"
                  THEN ProcessPolledItemChecked(pollH.id, readOk)
                  ELSE HandleMessageChecked(pollH.id, readOk)
         IN
         /\ CanFail(Cost(~readOk))
         /\ obs' = Incident(obs, Cost(~readOk))
         /\ pollH' = IF o \in {"check", "mark", "markonly"}
                     THEN [pollH EXCEPT !.pc = o] ELSE Idle
         /\ bot' = IF o = "raise" THEN PollTaskEnds(bot) ELSE bot
    /\ UNCHANGED <<streaming, db, cfg, msgH, run, handled, handledPrev, api, req, aside>>

\* The ledger write of the poll task returns.  A write that raises is caught
\* nowhere on the way out of _poll_mentions.
PollMarkDone ==
    /\ bot.poll_tasks > 0
    /\ pollH.pc \in {"mark", "markonly"}
    /\ \E ok \in BOOLEAN :
         IF ok
         THEN /\ db' = MarkLedger(db, pollH.id)
              /\ bot' = MarkCache(bot, pollH.id)
              /\ handled' = IF pollH.pc = "mark"
                            THEN [handled EXCEPT ![pollH.id] = @ + 1] ELSE handled
              /\ pollH' = IF pollH.pc = "mark"
                          THEN [pollH EXCEPT !.pc = "respond"] ELSE Idle
              /\ obs' = obs
         ELSE /\ CanFail(1)
              /\ obs' = Incident(obs, 1)
              /\ pollH' = Idle
              /\ bot' = PollTaskEnds(bot)
              /\ UNCHANGED <<db, handled>>
    /\ UNCHANGED <<streaming, cfg, msgH, run, handledPrev, api, req, aside>>

\* The plugin call, generation and reply of the poll task's handler end.
\* An exception that leaves the handler is caught nowhere on the way out of
\* _poll_mentions.
PollRespondDone ==
    /\ bot.poll_tasks > 0
    /\ pollH.pc = "respond"
    /\ pollH' = Idle
    /\ \E o \in RespondOutcomes :
         /\ CanFail(Cost(o # "ok"))
         /\ obs' = Incident(ObsAfterRespond(obs, pollH.id, o), Cost(o # "ok"))
         /\ bot' = IF o = "uncaught" THEN PollTaskEnds(bot) ELSE bot
    /\ UNCHANGED <<streaming, db, cfg, msgH, run, handled, handledPrev, api, req, aside>>

\* What get_mentions / get_all_chat_messages can raise in a poll cycle.
FetchErrors == {"connection", "rate_limit", "auth"}

\* The except clause of the loop of _poll_mentions, for an exception of a
\* fetch: APIConnectionError and APIRateLimitError are caught (the loop is
\* left if running is cleared, else it sleeps base_delay);
\* AuthenticationError is not in the tuple and ends the task.
PollAfterFetchError(b, e) ==
    IF e = "auth" THEN "dies"
    ELSE IF ~b.running THEN "break"
    ELSE "backoff"

\* A fetch of a poll cycle raises.
PollFetchError(e) ==
    /\ bot.poll_tasks > 0
    /\ pollH = Idle
    /\ LET o == PollAfterFetchError(bot, e) IN
       /\ pollH' = IF o = "backoff" THEN [pc |-> "backoff", id |-> 0] ELSE Idle
       /\ bot' = IF o = "backoff" THEN bot ELSE PollTaskEnds(bot)
       /\ CanFail(1)
       /\ obs' = Incident([obs EXCEPT !.authError = @ \/ e = "auth"], 1)
    /\ UNCHANGED <<streaming, db, cfg, msgH, run, handled, handledPrev, api, req, aside>>

\* The sleep after a caught error is over: the loop tests self.running.
PollBackoffDone ==
    /\ bot.poll_tasks > 0
    /\ pollH.pc = "backoff"
    /\ pollH' = Idle
    /\ UNCHANGED <<streaming, bot, db, cfg, msgH, run, handled, handledPrev, obs, api, req, aside>>

\* `while self.running` of _poll_mentions fails after the sleep.
PollExit ==
    /\ bot.poll_tasks > 0
    /\ pollH = Idle
    /\ ~bot.running
    /\ bot' = PollTaskEnds(bot)
    /\ UNCHANGED <<streaming, db, cfg, msgH, pollH, run, handled, handledPrev, obs, api, req, aside>>

\* ------------------------------------------------------------ scheduler
\* cleanup_old_records: DELETE ... WHERE processed_at < cutoff removes the
\* km oldest rows of processed_mentions and the kc oldest rows of
\* processed_messages.
CleanupOldRecords(d, km, kc) ==
    [mentions |-> SubSeq(d.mentions, km + 1, Len(d.mentions)),
     messages |-> SubSeq(d.messages, kc + 1, Len(d.messages))]

\* The cron job _cleanup_old_processed_items fires (daily at 01:00) between
\* scheduler.start() in start() and scheduler.shutdown() in stop(), with
\* rows older than DB_CLEANUP_DAYS in the tables.
CleanupOldProcessedItems ==
    /\ bot.pc \in {"connecting", "started"}
    /\ CanFail(1)
    /\ \E km \in 0..Len(db.mentions), kc \in 0..Len(db.messages) :
         /\ km + kc > 0
         /\ db' = CleanupOldRecords(db, km, kc)
    /\ obs' = Incident(obs, 1)
    /\ UNCHANGED <<streaming, bot, cfg, msgH, pollH, run, handled, handledPrev, api, req, aside>>

\* ------------------------------------------------------------ stop()
\* A ledger write that is in flight when its task is cancelled, or when the
\* process ends, may or may not land in the table.
InFlightWrite(d, h, lands) ==
    IF h.pc \in {"mark", "markonly"} /\ lands THEN MarkLedger(d, h.id) ELSE d

\* stop() up to its first await: the running flag is cleared.
Stop ==
    /\ bot.pc \in {"started", "start_failed"}
    /\ bot' = [bot EXCEPT !.running = FALSE, !.pc = "stop_tasks"]
    /\ obs' = [obs EXCEPT !.stopInFlight =
                 /\ streaming.heartbeat_task = "run"
                 /\ streaming.message_task = "run"
                 /\ (bot.maintain = "run" \/ bot.poll_tasks > 0)]
    /\ UNCHANGED <<streaming, db, cfg, msgH, pollH, run, handled, handledPrev, api, req, aside>>

\* stop(): every task of self.tasks is cancelled and awaited.
StopCancelTasks ==
    /\ bot.pc = "stop_tasks"
    /\ bot' = [bot EXCEPT !.maintain = CancelTask(@), !.poll_tasks = 0,
                          !.pc = "stop_streaming"]
    /\ pollH' = Idle
    /\ \E lands \in BOOLEAN : db' = InFlightWrite(db, pollH, lands)
    /\ UNCHANGED <<streaming, cfg, msgH, run, handled, handledPrev, obs, api, req, aside>>

\* stop() -> streaming.close() -> disconnect().  An exception of the
\* unsubscribe send leaves close() and the try block of stop().
StopDisconnect ==
    /\ bot.pc = "stop_streaming"
    /\ LET d == Disconnect(streaming) IN
       /\ streaming' = d.sc
       /\ bot' = [bot EXCEPT !.pc = IF d.ret = "raise" THEN "stopped" ELSE "stop_close"]
    /\ UNCHANGED <<db, cfg, msgH, pollH, run, handled, handledPrev, obs, api, req, aside>>

\* The rest of streaming.close(): _close_websocket cancels and awaits the
\* heartbeat and the message task and closes the socket; the window is
\* cleared.
StopClose ==
    /\ bot.pc = "stop_close"
    /\ LET c == CloseWebsocket(streaming)
           cancelled == streaming.message_task = "run"
                           /\ c.sc.message_task # "run"
       IN
       /\ streaming' = [c.sc EXCEPT !.processed_events = <<>>]
       /\ obs' = [obs EXCEPT !.closeCalls = @ + c.closes,
                             !.inFlight = IF cancelled THEN 0 ELSE @]
       /\ msgH' = IF cancelled THEN Idle ELSE msgH
       /\ \E lands \in BOOLEAN :
            db' = IF cancelled THEN InFlightWrite(db, msgH, lands) ELSE db
    /\ bot' = [bot EXCEPT !.pc = "stop_clients"]
    /\ UNCHANGED <<cfg, pollH, run, handled, handledPrev, api, req, aside>>

\* The rest of stop(): misskey.close(), deepseek.close(),
\* persistence.close(), and the two caches are cleared.
StopCloseClients ==
    /\ bot.pc = "stop_clients"
    /\ bot' = [bot EXCEPT !.processed_mentions = <<>>, !.processed_messages = <<>>,
                          !.pc = "stopped"]
    /\ obs' = [obs EXCEPT !.apiClosed = TRUE]
    /\ UNCHANGED <<streaming, db, cfg, msgH, pollH, run, handled, handledPrev, api, req, aside>>

\* The process ends (stopped or killed) and a new one starts over the same
\* ledger: every object is constructed anew.
Restart ==
    /\ run < MaxRuns
    /\ run' = run + 1
    /\ streaming' = NewStreaming
    /\ bot' = NewBot
    /\ msgH' = Idle
    /\ pollH' = Idle
    /\ obs' = [NewObs EXCEPT !.incidents = obs.incidents]
    /\ handled' = [i \in Ids |-> 0]
    /\ handledPrev' = handledPrev \cup {i \in Ids : handled[i] > 0}
    /\ \E l1, l2 \in BOOLEAN :
         db' = InFlightWrite(InFlightWrite(db, msgH, l1), pollH, l2)
    /\ UNCHANGED <<cfg, api, req, aside>>

Next ==
    \/ Start
    \/ StartWebsocketAttempt
    \/ MaintainWebsocket
    \/ NetFail
    \/ Heartbeat
    \/ \E i \in Ids : RecvEvent(i)
    \/ MsgCheckDone
    \/ MsgMarkDone
    \/ MsgRespondDone
    \/ \E kind \in MalformedFrames : RecvMalformed(kind)
    \/ RecvClose
    \/ \E i \in Ids : PollItem(i)
    \/ PollCheckDone
    \/ PollMarkDone
    \/ PollRespondDone
    \/ \E e \in FetchErrors : PollFetchError(e)
    \/ PollBackoffDone
    \/ PollExit
    \/ CleanupOldProcessedItems
    \/ Stop
    \/ StopCancelTasks
    \/ StopDisconnect
    \/ StopClose
    \/ StopCloseClients
    \/ Restart

Spec == Init /\ [][Next]_vars

\* ------------------------------------------------------------ the client alone
\* The interface of StreamingClient called in any order by one caller, with
\* the network acting in between.  api records the last call and its result.
InitClient ==
    /\ Init
    /\ cfg = [mention_enabled |-> TRUE, chat_enabled |-> TRUE]

\* await client.connect()
ClientConnect ==
    /\ streaming.uuids < MaxChannelIds
    /\ \E net \in NetOutcomes :
         LET r == Connect(streaming, net) IN
         /\ streaming' = r.sc
         /\ api' = [call |-> "connect", ret |-> r.ret, id |-> 0,
                    frames |-> r.frames, frame |-> NoFrame,
                    sockets |-> r.sockets]
    /\ UNCHANGED <<bot, db, cfg, msgH, pollH, run, handled, handledPrev, obs, req, aside>>

\* await client.connect_channel(ChannelType.MAIN)
ClientConnectChannel ==
    /\ streaming.uuids < MaxChannelIds
    /\ LET r == ConnectChannel(streaming) IN
       /\ streaming' = r.sc
       /\ api' = [call |-> "connect_channel", ret |-> r.ret, id |-> r.id,
                  frames |-> r.frames, frame |-> NoFrame, sockets |-> 0]
    /\ UNCHANGED <<bot, db, cfg, msgH, pollH, run, handled, handledPrev, obs, req, aside>>

\* await client.disconnect_channel(ChannelType.MAIN)
ClientDisconnectChannel ==
    /\ LET r == DisconnectChannel(streaming) IN
       /\ streaming' = r.sc
       /\ api' = [call |-> "disconnect_channel", ret |-> r.ret, id |-> 0,
                  frames |-> 0, frame |-> NoFrame, sockets |-> 0]
    /\ UNCHANGED <<bot, db, cfg, msgH, pollH, run, handled, handledPrev, obs, req, aside>>

\* await client.disconnect()
ClientDisconnect ==
    /\ LET r == Disconnect(streaming) IN
       /\ streaming' = r.sc
       /\ api' = [call |-> "disconnect", ret |-> r.ret, id |-> 0,
                  frames |-> r.frames, frame |-> NoFrame, sockets |-> 0]
    /\ UNCHANGED <<bot, db, cfg, msgH, pollH, run, handled, handledPrev, obs, req, aside>>

\* close(): disconnect(), _close_websocket(), the window is cleared.
Close(sc) ==
    LET d == Disconnect(sc) IN
    IF d.ret = "raise" THEN d
    ELSE [sc |-> [CloseWebsocket(d.sc).sc EXCEPT !.processed_events = <<>>],
          ret |-> "ok", frames |-> d.frames]

\* await client.close()
ClientClose ==
    /\ LET r == Close(streaming) IN
       /\ streaming' = r.sc
       /\ api' = [call |-> "close", ret |-> r.ret, id |-> 0,
                  frames |-> r.frames, frame |-> NoFrame, sockets |-> 0]
    /\ UNCHANGED <<bot, db, cfg, msgH, pollH, run, handled, handledPrev, obs, req, aside>>

\* _handle_messages receives a text frame {"type": "channel", "body": {"id":
\* ch, "body": e}} and _process_message hands it to _handle_channel_message.
ClientRecvFrame ==
    /\ LoopCondition(streaming)
    /\ streaming.message_task = "run"
    /\ streaming.ws_connection = "open"
    /\ \E ch \in 1..MaxChannelIds, i \in 0..NumIds, e \in Events :
         LET r == HandleChannelMessage(streaming, ch, i, e) IN
         /\ streaming' = r.sc
         /\ api' = [call |-> "frame", ret |-> r.handler, id |-> i, frames |-> 0,
                    frame |-> [channel |-> ch, event |-> e], sockets |-> 0]
    /\ UNCHANGED <<bot, db, cfg, msgH, pollH, run, handled, handledPrev, obs, req, aside>>

NextClient ==
    \/ ClientConnect
    \/ ClientRecvFrame
    \/ ClientConnectChannel
    \/ ClientDisconnectChannel
    \/ ClientDisconnect
    \/ ClientClose
    \/ NetFail
    \/ Heartbeat
    \/ RecvClose

SpecClient == InitClient /\ [][NextClient]_vars

\* ------------------------------------------------------------ replies
\* One handler invocation after _mark_processed, followed call by call: the
\* generation (DeepSeekAPI.generate_reply / generate_chat_response), the
\* reply (MisskeyAPI.create_note / send_message) and, for a mention, the
\* error replies of _send_error_reply.  Every call runs under retry_async.
API_MAX_RETRIES == 3

\* How one attempt of a request ends: HTTP 200 ("ok"), 401/403, 429, a 5xx
\* status or a connection that cannot be made ("unavailable"), another
\* non-OK status such as 400 or 404 ("bad_request"), or a request that the
\* server carried out while the answer never arrived, the client seeing a
\* timeout or a reset connection ("lost").
Responses ==
    {"ok", "unauthorized", "rate_limit", "unavailable", "bad_request", "lost"}

\* The answers followed for the call of a stage: all of them for a request
\* of MisskeyAPI, the first four for the generation.
StageResponses(stage) ==
    IF stage = "generate"
    THEN {"ok", "unauthorized", "rate_limit", "unavailable"}
    ELSE Responses

\* Whether the server has carried out the request of an attempt.
ServerActs(resp) == resp \in {"ok", "lost"}

\* The stages of a handler that are API calls.
Calls == {"generate", "post", "error1", "error2"}

\* _make_request with the exception classes kept apart, for comparison: a
\* 429 leaves the body as APIRateLimitError.
MakeRequestRaisesUnwrapped(resp) ==
    CASE resp = "ok" -> "none"
      [] resp = "unauthorized" -> "AuthenticationError"
      [] resp = "rate_limit" -> "APIRateLimitError"
      [] OTHER -> "APIConnectionError"

\* The exception that leaves the body of MisskeyAPI._make_request for one
\* attempt.  The APIRateLimitError raised for a 429 is raised inside the try
\* block, whose `except Exception` turns it into APIConnectionError; only
\* AuthenticationError and ValueError are re-raised as they are.
MakeRequestRaises(resp) ==
    CASE resp = "ok" -> "none"
      [] resp = "unauthorized" -> "AuthenticationError"
      [] OTHER -> "APIConnectionError"

\* The exception that leaves the body of DeepSeekAPI._call_api for one
\* attempt (the client library's classes, but for the authentication error).
CallApiRaises(resp) ==
    CASE resp = "ok" -> "none"
      [] resp = "unauthorized" -> "AuthenticationError"
      [] resp = "rate_limit" -> "RateLimitError"
      [] OTHER -> "APIError"

\* The exception of one attempt of the call of a stage.
AttemptRaises(stage, resp) ==
    IF stage = "generate" THEN CallApiRaises(resp) ELSE MakeRequestRaises(resp)

\* retryable_exceptions of the retry_async decorators of the two clients.
Retryable(stage, exc) ==
    IF stage = "generate" THEN exc \in {"RateLimitError", "APIError"}
    ELSE exc = "APIConnectionError"

\* The wrapper with a sleep after every failed attempt, for comparison.
RetryWrapperSleepsAlways(max_retries, attempt, exc, retryable) ==
    IF exc = "none" THEN "return"
    ELSE IF ~retryable THEN "raise"
    ELSE IF attempt < max_retries THEN "sleep"
    ELSE "raise"

\* The wrapper of retry_async(max_retries) after attempt number `attempt`
\* (from 0) of its loop ended with exc: the result is returned; an exception
\* that is not retryable is raised; otherwise it sleeps and tries again if
\* attempt < max_retries - 1, and raises the last error after the loop.
RetryWrapper(max_retries, attempt, exc, retryable) ==
    IF exc = "none" THEN "return"
    ELSE IF ~retryable THEN "raise"
    ELSE IF attempt < max_retries - 1 THEN "sleep"
    ELSE "raise"

\* retry_async as the two clients use it, with max_retries=API_MAX_RETRIES.
RetryAsync(attempt, exc, retryable) ==
    RetryWrapper(API_MAX_RETRIES, attempt, exc, retryable)

\* The exception the caller of a stage sees: generate_text maps the client
\* library's classes to the bot's.
CallRaises(stage, exc) ==
    IF stage # "generate" THEN exc
    ELSE IF exc = "RateLimitError" THEN "APIRateLimitError"
    ELSE IF exc = "APIError" THEN "APIConnectionError"
    ELSE exc

\* Where the handler goes when the call of a stage returned.
AfterReturn(kind, stage) == IF stage = "generate" THEN "post" ELSE "done"

\* What the call of a stage posts when it returns.
Posts(stage) ==
    IF stage = "post" THEN {"reply"}
    ELSE IF stage \in {"error1", "error2"} THEN {"error"}
    ELSE {}

\* Where the handler goes when the call of a stage raised exc.  A chat
\* handler logs it (_handle_message).  A mention handler answers a failed
\* generation or reply with _send_error_reply (_generate_ai_mention_response);
\* _send_error_reply catches APIConnectionError and APIRateLimitError, an
\* AuthenticationError leaves it: from the first error reply it reaches
\* _handle_mention, whose _handle_mention_error sends the error reply again,
\* from the second it leaves the handler ("raised").
AfterRaise(kind, stage, exc) ==
    IF kind = "message" THEN "done"
    ELSE IF stage \in {"generate", "post"} THEN "error1"
    ELSE IF exc # "AuthenticationError" THEN "done"
    ELSE IF stage = "error1" THEN "error2"
    ELSE "raised"

\* The dispatch loop after an exception left the handler: _call_handlers
\* swallows it on the push path; on the pull path the except clause of
\* _poll_mentions does not name AuthenticationError.
LoopAfterRaise(transport, exc) ==
    IF transport = "push" THEN "run"
    ELSE IF exc = "AuthenticationError" THEN "ended"
    ELSE "run"

\* A handler has recorded its event and starts to respond.
HandlerResponds(kind, transport) ==
    /\ req.pc = "idle"
    /\ req.loop = "run"
    /\ req' = [NoRequest EXCEPT !.pc = "generate", !.kind = kind,
                                !.transport = transport]
    /\ UNCHANGED <<streaming, bot, db, cfg, msgH, pollH, run, handled,
                   handledPrev, obs, api, aside>>

\* One attempt of the call the handler is in, answered with resp.
ApiAttempt(resp) ==
    /\ req.pc \in Calls
    /\ ~req.sleeping
    /\ resp \in StageResponses(req.pc)
    /\ LET exc == AttemptRaises(req.pc, resp)
           r == RetryAsync(req.attempt, exc, Retryable(req.pc, exc))
           e == CallRaises(req.pc, exc)
           next == IF r = "return" THEN AfterReturn(req.kind, req.pc)
                   ELSE AfterRaise(req.kind, req.pc, e)
       IN
       req' =
         IF r = "sleep"
         THEN [req EXCEPT !.attempt = @ + 1, !.sleeping = TRUE, !.last = resp,
                          !.notes = IF req.pc # "generate" /\ ServerActs(resp)
                                    THEN @ + 1 ELSE @]
         ELSE [req EXCEPT
                 !.pc = IF next = "raised" THEN "done" ELSE next,
                 !.attempt = 0,
                 !.last = resp,
                 !.notes = IF req.pc # "generate" /\ ServerActs(resp)
                           THEN @ + 1 ELSE @,
                 !.failed = IF r = "raise" /\ req.pc \in {"generate", "post"}
                            THEN req.pc ELSE @,
                 !.posted = IF r = "return" THEN @ \cup Posts(req.pc) ELSE @,
                 !.loop = IF next = "raised"
                          THEN LoopAfterRaise(req.transport, e) ELSE @]
    /\ UNCHANGED <<streaming, bot, db, cfg, msgH, pollH, run, handled,
                   handledPrev, obs, api, aside>>

\* The sleep of retry_async between two attempts is over.
RetryBackoffDone ==
    /\ req.sleeping
    /\ req' = [req EXCEPT !.sleeping = FALSE]
    /\ UNCHANGED <<streaming, bot, db, cfg, msgH, pollH, run, handled,
                   handledPrev, obs, api, aside>>

\* The handler is over and the loop that called it, if it still runs, goes
\* on to the next event.
HandlerOver ==
    /\ req.pc = "done"
    /\ req.loop = "run"
    /\ req' = NoRequest
    /\ UNCHANGED <<streaming, bot, db, cfg, msgH, pollH, run, handled,
                   handledPrev, obs, api, aside>>

NextReply ==
    \/ \E kind \in {"mention", "message"}, transport \in {"push", "pull"} :
         HandlerResponds(kind, transport)
    \/ \E resp \in Responses : ApiAttempt(resp)
    \/ RetryBackoffDone
    \/ HandlerOver

SpecReply == InitClient /\ [][NextReply]_vars

\* ------------------------------------------------------------ properties
\* C1: within one run, whatever the sequence of deliveries (the same frame
\* twice, a push redelivery after the window evicted the id, repeated poll
\* pages), the handler side effects of an event id are triggered at most once.
C1_AtMostOncePerRun == \A i \in Ids : handled[i] <= 1

\* C2: after a restart over the same ledger, an id whose handler side effects
\* ran in an earlier run triggers none in this run, by push or by pull.
C2_NoSideEffectsAfterRestart == \A i \in handledPrev : handled[i] = 0

\* C3: when every socket attempt of the initial start fails, the pull loop is
\* started only after exactly WS_MAX_RETRIES socket attempts.
C3_ReconnectBound ==
    (obs.pollStarted /\ obs.socketOk = 0) => obs.socketAttempts = WS_MAX_RETRIES

\* C4: once the supervisor of a running bot is done with a dead connection,
\* an event source is active: the client is connected again or the pull loop
\* runs.
C4_FailoverLeavesSource ==
    (bot.running /\ bot.pc = "started" /\ bot.maintain = "done")
        => (IsConnected(streaming) \/ bot.poll_tasks > 0)

\* C5: when stop() was called with the heartbeat task, the receive task and
\* the supervisor or poll task in flight, then once stop() has returned all
\* of them are terminated and the socket has been closed, by at most one call
\* of its close operation.
C5_GracefulShutdown ==
    (bot.pc = "stopped" /\ obs.stopInFlight)
        => /\ streaming.heartbeat_task # "run"
           /\ streaming.message_task # "run"
           /\ bot.maintain # "run"
           /\ bot.poll_tasks = 0
           /\ ~WsUsable(streaming)
           /\ obs.closeCalls <= 1

\* C6: after any sequence of connect, connect_channel, disconnect_channel,
\* disconnect and close there is at most one subscription of the main
\* channel, and a connect_channel(MAIN) that finds a subscription returns its
\* id, sends no connect frame and changes nothing.
C6_AtMostOneSubscription == Cardinality(streaming.channels) <= 1

C6_SecondConnectChannel ==
    (streaming.channels # {} /\ api' # api /\ api'.call = "connect_channel")
        => /\ api'.ret = "ok"
           /\ api'.id \in streaming.channels
           /\ api'.frames = 0
           /\ streaming' = streaming

C6_ChannelUniqueness ==
    [](C6_AtMostOneSubscription) /\ [][C6_SecondConnectChannel]_vars

\* A second connect_channel(MAIN) has returned the id of the subscription.
C6_Witness ==
    /\ api.call = "connect_channel"
    /\ api.frames = 0
    /\ api.ret = "ok"
    /\ streaming.channels = {api.id}

\* C7: the pull loop never runs the handler for an event that is not created
\* after the startup of the run; a push frame accepted for such an event,
\* unprocessed and of an enabled kind, does run the handler.
C7_PullGated ==
    pollH.pc \in {"check", "mark", "respond"}
        => CreatedAt(pollH.id) > StartupTime(run)

C7_PushNotGated ==
    \A i \in Ids :
        ( /\ i \notin Range(streaming.processed_events)
          /\ i \in Range(streaming'.processed_events)
          /\ CreatedAt(i) <= StartupTime(run)
          /\ Enabled(EventKind(i))
          /\ ~LRUContains(CacheOf(bot, EventKind(i)), i)
          /\ ~IsProcessed(TableOf(db, EventKind(i)), i) )
        => (msgH'.id = i /\ msgH'.pc \in {"check", "mark"})

C7_StartupGatingAsymmetry == [](C7_PullGated) /\ [][C7_PushNotGated]_vars

\* The push handler triggers the side effects of an event created before the
\* startup of the run and not handled in an earlier run.
C7_Witness ==
    /\ msgH.pc = "respond"
    /\ CreatedAt(msgH.id) <= StartupTime(run)
    /\ msgH.id \notin handledPrev

\* C8: while the ledger write of an id is in flight the cache of its kind
\* already contains the id.
C8_CacheBeforeLedger ==
    \A h \in {msgH, pollH} :
        h.pc \in {"mark", "markonly"}
            => LRUContains(CacheOf(bot, EventKind(h.id)), h.id)

\* C9: once the pull loop has been started in a run, that run makes no
\* connect call and no socket attempt, and no supervisor of a push
\* connection runs.
C9_NoPushAfterPull ==
    (obs.pollStarted /\ run' = run)
        => /\ obs'.connectCalls = obs.connectCalls
           /\ obs'.socketAttempts = obs.socketAttempts
           /\ bot'.maintain = "none"
           /\ ~IsConnected(streaming')

C9_OneWayFallback == [][C9_NoPushAfterPull]_vars

\* The pull loop, started after a failed socket attempt, delivers an event.
C9_Witness ==
    /\ obs.pollStarted
    /\ obs.socketAttempts >= 1
    /\ pollH.pc = "respond"

\* C10: the pull loop does not run while a subscription is active on an open
\* connection, and there is at most one poll task.
C10_TransportMutex ==
    /\ bot.poll_tasks <= 1
    /\ bot.poll_tasks > 0
         => ~(WsUsable(streaming) /\ streaming.channels # {})
    /\ ~(bot.poll_tasks > 0 /\ bot.maintain = "run")

\* The single poll task is in a handler while the client has no subscription.
C10_Witness ==
    /\ bot.poll_tasks = 1
    /\ pollH.pc = "mark"
    /\ streaming.channels = {}

\* C11: the pull loop ends only when the running flag is cleared or its task
\* is cancelled: after a transient error of a poll cycle (a failed fetch, a
\* rate limit, a ledger I/O error, a handler failure; an authentication
\* error is not counted as transient) the loop is still alive, so that while
\* the bot is started and running the poll task it started exists.
C11_PollLoopSurvives ==
    (obs.pollStarted /\ bot.running /\ bot.pc = "started" /\ ~obs.authError)
        => bot.poll_tasks > 0

\* C12: within one push connection a frame whose event id is tracked in
\* processed_events reaches no handler, and an id is tracked when its first
\* frame is accepted, before the handler runs: the message task enters a
\* handler only for an id that was not in the window, and the id is in the
\* window from the handler's first step on.
C12_HandlerStart ==
    (msgH = Idle /\ msgH' # Idle)
        => /\ msgH'.id \notin Range(streaming.processed_events)
           /\ msgH'.id \in Range(streaming'.processed_events)

C12_DuplicateWindow == [][C12_HandlerStart]_vars

\* A frame of an event handled once on this connection was dropped as a
\* duplicate, and the event is still tracked.
C12_Witness ==
    /\ obs.lastFrame = "dup"
    /\ msgH = Idle
    /\ \E i \in Range(streaming.processed_events) : handled[i] = 1

\* C13: a ledger read that fails with an I/O error, for an event that is in
\* neither cache nor ledger, counts as "not processed": whenever a task that
\* is not being stopped leaves the read of such an event, the event goes on
\* to dispatch (to the ledger write that opens it, or to the handler's own
\* read) and is not dropped.
C13_ReadLeadsToDispatch ==
    /\ (/\ msgH.pc = "check" /\ msgH' # msgH
        /\ bot'.pc = bot.pc /\ run' = run
        /\ ~IsProcessed(db.messages, msgH.id))
           => (msgH'.id = msgH.id /\ msgH'.pc = "mark")
    /\ (/\ pollH.pc \in {"pcheck", "check"} /\ pollH' # pollH
        /\ bot'.pc = bot.pc /\ run' = run
        /\ ~IsProcessed(TableOf(db, EventKind(pollH.id)), pollH.id))
           => (pollH'.id = pollH.id /\ pollH'.pc \in {"check", "mark", "markonly"})

C13_FailOpenRead == [][C13_ReadLeadsToDispatch]_vars

\* C14: a receive loop that has ended is detected: once the message task of
\* a started client is over, is_connected is false (which is what the
\* supervisor _maintain_websocket polls), so the client never reports
\* connected over a dead receive loop.
C14_DeadLoopDetected ==
    (streaming.running /\ streaming.message_task = "done")
        => ~IsConnected(streaming)

\* C15: a frame that cannot be decoded, or that decodes to something other
\* than a {type, body} envelope, is dropped and the receive loop goes on: the
\* step of the message task that consumes such a frame on a live connection
\* leaves the task running.
C15_MalformedFrameStep ==
    (/\ obs'.lastFrame = "malformed" /\ obs'.incidents > obs.incidents
     /\ bot' = bot /\ db' = db /\ msgH' = msgH /\ pollH' = pollH
     /\ LoopCondition(streaming))
        => streaming'.message_task = "run"

C15_MalformedNeverStops == [][C15_MalformedFrameStep]_vars

\* C16: an event is recorded, in the ledger and in the cache, before the
\* plugin call, the generation or the reply of its handler starts, so that
\* an event whose handler failed mid-flight is not dispatched again: a task
\* enters the responding part of a handler only with the id recorded, and
\* the side effects of an event whose handler failed are never triggered a
\* second time in the run.
C16_MarkedThenNeverAgain ==
    /\ (msgH.pc # "respond" /\ msgH'.pc = "respond")
         => /\ IsProcessed(TableOf(db', EventKind(msgH'.id)), msgH'.id)
            /\ LRUContains(CacheOf(bot', EventKind(msgH'.id)), msgH'.id)
    /\ (pollH.pc # "respond" /\ pollH'.pc = "respond")
         => /\ IsProcessed(TableOf(db', EventKind(pollH'.id)), pollH'.id)
            /\ LRUContains(CacheOf(bot', EventKind(pollH'.id)), pollH'.id)
    /\ \A i \in Ids : obs.failed = i => handled'[i] <= handled[i]

C16_MarkOnAcceptance == [][C16_MarkedThenNeverAgain]_vars

\* C17: on the pull path an item that neither the cache nor the ledger knows
\* and that is not strictly after startup (createdAt at or before the
\* startup time, absent or unparseable) is recorded in ledger and cache
\* without a handler call, and later cycles skip it at the cache; an unknown
\* item strictly after startup goes to the handler.  (Steps in which the
\* ledger operation itself succeeds.)
C17_PollGate ==
    (/\ pollH.pc = "pcheck" /\ pollH' # pollH
     /\ obs'.incidents = obs.incidents /\ bot'.pc = bot.pc /\ run' = run
     /\ ~IsProcessed(TableOf(db, EventKind(pollH.id)), pollH.id))
        => /\ pollH'.id = pollH.id
           /\ IF CreatedAt(pollH.id) # NoTimestamp
                 /\ CreatedAt(pollH.id) > StartupTime(run)
              THEN pollH'.pc = Handler(pollH.id)
              ELSE pollH'.pc = "markonly"

C17_MarkWithoutHandler ==
    (/\ pollH.pc = "markonly" /\ pollH' # pollH
     /\ obs'.incidents = obs.incidents /\ bot'.pc = bot.pc /\ run' = run)
        => /\ pollH' = Idle
           /\ handled' = handled
           /\ IsProcessed(TableOf(db', EventKind(pollH.id)), pollH.id)
           /\ LRUContains(CacheOf(bot', EventKind(pollH.id)), pollH.id)

C17_SkippedAtCache ==
    \A i \in Ids :
        LRUContains(CacheOf(bot, EventKind(i)), i)
            => ~(pollH' # pollH /\ pollH'.id = i)

C17_StartupMarking ==
    [][C17_PollGate /\ C17_MarkWithoutHandler /\ C17_SkippedAtCache]_vars

\* In the first run over an empty ledger, a polled item without a timestamp
\* is in ledger and cache and no handler ran for it.
C17_Witness ==
    /\ run = 1
    /\ obs.pollStarted
    /\ pollH = Idle
    /\ \E i \in Ids :
         /\ CreatedAt(i) = NoTimestamp
         /\ handled[i] = 0
         /\ IsProcessed(TableOf(db, EventKind(i)), i)
         /\ LRUContains(CacheOf(bot, EventKind(i)), i)

\* C18: evicting an id from the cache of its kind never makes the event
\* dispatchable again: for an event handled in this run whose id is no
\* longer in the cache, a later observation invokes no handler (the side
\* effects of the event are not triggered again).
C18_NoDispatchAfterEviction ==
    \A i \in Ids :
        (handled[i] >= 1 /\ ~LRUContains(CacheOf(bot, EventKind(i)), i))
            => handled'[i] <= handled[i]

C18_EvictionLossless == [][C18_NoDispatchAfterEviction]_vars

\* C19: the ledger is append-only: once an id is recorded, is_processed(id)
\* stays true; no step of the bot or of a job it schedules removes a record.
C19_RecordsStay ==
    \A i \in Ids :
        /\ IsProcessed(db.mentions, i) => IsProcessed(db'.mentions, i)
        /\ IsProcessed(db.messages, i) => IsProcessed(db'.messages, i)

C19_LedgerAppendOnly == [][C19_RecordsStay]_vars

\* C20: an authentication error (at startup, in a poll cycle or in a reply)
\* is fatal: it goes up to the top-level shutdown and the bot is not left
\* running, so after one the bot opens no socket, takes no event into a
\* handler and triggers no side effects for the rest of the run.
C20_NoWorkAfterAuthError ==
    (obs.authError /\ run' = run)
        => /\ obs'.socketAttempts = obs.socketAttempts
           /\ handled' = handled
           /\ msgH' # msgH => msgH' = Idle
           /\ pollH' # pollH => pollH' = Idle

C20_AuthFailureFatal == [][C20_NoWorkAfterAuthError]_vars

\* C21: a rate-limit answer to an API call is retried with backoff at the
\* call site for a bounded number of attempts; once the attempts are used up
\* the reply is not sent and the dispatch loop keeps running.  No call makes
\* more than API_MAX_RETRIES attempts; a 429 before the last attempt puts
\* the same call to sleep for another attempt; a 429 on the last attempt
\* leaves the loop running; and after a failed generation or reply no reply
\* is posted.
C21_Bounded ==
    /\ req.attempt < API_MAX_RETRIES
    /\ req.failed # "none" => "reply" \notin req.posted

C21_RateLimitStep ==
    (req.pc \in Calls /\ ~req.sleeping /\ req' # req /\ req'.last = "rate_limit")
        => IF req.attempt < API_MAX_RETRIES - 1
           THEN /\ req'.pc = req.pc
                /\ req'.attempt = req.attempt + 1
                /\ req'.sleeping
                /\ req'.posted = req.posted
           ELSE /\ req'.pc # req.pc
                /\ "reply" \notin req'.posted
                /\ req'.loop = "run"

C21_RateLimitHandling == [](C21_Bounded) /\ [][C21_RateLimitStep]_vars

\* The reply of a mention was answered with 429 on its last attempt: the
\* call has failed, nothing is posted, the loop runs.
C21_Witness ==
    /\ req.kind = "mention"
    /\ req.failed = "post"
    /\ req.last = "rate_limit"
    /\ req.pc = "error1"
    /\ req.attempt = 0
    /\ req.posted = {}
    /\ req.loop = "run"

\* C22: when the reply to a mention or chat message cannot be generated or
\* sent, the user receives nothing at all from the bot for that event: once
\* the generation or the reply of a handler has failed, nothing is posted,
\* neither a reply nor a substitute or error text.
C22_FailClosedReplies == req.failed # "none" => req.posted = {}

\* C23: stop() clears the running flag, then cancels and awaits the
\* supervisor and poll tasks and the heartbeat and receive tasks of the
\* client, and only afterwards closes the API client and the ledger and
\* clears the caches: while stop() is under way running is false; the
\* supervisor and poll tasks are over before the client is torn down; the
\* step that closes the API client starts with all four tasks over; and at
\* and after that moment no mention or message handler is executing.
C23_TasksOver ==
    /\ ~bot.running
    /\ bot.maintain # "run"
    /\ bot.poll_tasks = 0
    /\ pollH = Idle
    /\ streaming.heartbeat_task # "run"
    /\ streaming.message_task # "run"
    /\ msgH = Idle

C23_Order ==
    /\ bot.pc \in {"stop_tasks", "stop_streaming", "stop_close", "stop_clients"}
         => ~bot.running
    /\ bot.pc \in {"stop_streaming", "stop_close", "stop_clients"}
         => (bot.maintain # "run" /\ bot.poll_tasks = 0 /\ pollH = Idle)
    /\ bot.pc = "stop_clients" => C23_TasksOver
    /\ obs.apiClosed => C23_TasksOver

C23_CloseStep ==
    (~obs.apiClosed /\ obs'.apiClosed)
        => /\ C23_TasksOver
           /\ bot.pc = "stop_clients"
           /\ bot'.processed_mentions = <<>>
           /\ bot'.processed_messages = <<>>

C23_ShutdownOrdering == [](C23_Order) /\ [][C23_CloseStep]_vars

\* stop() was called with the tasks in flight and has closed the API client.
C23_Witness ==
    /\ obs.apiClosed
    /\ obs.stopInFlight
    /\ bot.pc = "stopped"

\* C24: frames received on a connection are handled strictly in arrival
\* order: the handler invocation for a frame ends (or fails) before the next
\* frame is read, so at most one handler invocation is in flight per
\* connection, and a frame enters a handler only when none is in flight.
C24_OneInFlight == obs.inFlight <= 1

C24_ReadAfterHandler ==
    obs'.inFlight > obs.inFlight => (obs.inFlight = 0 /\ msgH = Idle)

C24_InOrderProcessing == [](C24_OneInFlight) /\ [][C24_ReadAfterHandler]_vars

\* A second frame entered a handler on a connection that had already
\* handled one frame to its end.
C24_Witness ==
    /\ obs.inFlight = 1
    /\ msgH.pc = "respond"
    /\ \E i \in Ids : i # msgH.id /\ handled[i] = 1

\* ------------------------------------------------------------ C25
\* C25: a frame whose channel id is not in the subscription table calls no
\* handler, leaves the duplicate window and the subscription table as they
\* were, and does not end the receive loop.  (A step that changes api into
\* a "frame" record is the reception of a frame.)
C25_UnknownChannelDropped ==
    [][(api' # api /\ api'.call = "frame"
          /\ api'.frame.channel \notin streaming.channels)
        => /\ api'.ret = "none"
           /\ streaming'.processed_events = streaming.processed_events
           /\ streaming'.channels = streaming.channels
           /\ streaming'.message_task = "run"
           /\ LoopCondition(streaming')]_vars

\* A frame of an unknown channel has been received while a subscription
\* exists; it carried a mention whose id is not in the window.
C25_Witness ==
    /\ api.call = "frame"
    /\ streaming.channels # {}
    /\ api.frame.channel \notin streaming.channels
    /\ api.frame.event.type = "mention"
    /\ api.id # 0
    /\ api.id \notin Range(streaming.processed_events)
    /\ api.ret = "none"
    /\ streaming.message_task = "run"

\* ------------------------------------------------------------ C26
\* The reception of a frame of a subscribed channel whose event is not a
\* duplicate: the event is dispatched.
C26_Accepted ==
    /\ api' # api
    /\ api'.call = "frame"
    /\ api'.frame.channel \in streaming.channels
    /\ (api'.id = 0 \/ api'.id \notin Range(streaming.processed_events))

\* An event without a type that carries fromUserId, toUserId and a text.
C26_Inferred(e) == e.type = "none" /\ e.fromUserId /\ e.toUserId /\ e.text

\* C26 as stated: a mention or reply event goes to the mention handlers
\* only, an event without a type that carries fromUserId, toUserId and a
\* non-null text goes to the message handlers only, and every other event
\* calls no handler.
C26_EveryOtherEventIgnored ==
    [][C26_Accepted =>
        LET e == api'.frame.event IN
        api'.ret = IF e.type \in {"mention", "reply"} THEN "mention"
                   ELSE IF C26_Inferred(e) THEN "message"
                   ELSE "none"]_vars

\* C26, amended: a mention or reply event goes to the mention handlers
\* only; an event of type chat, and an event without a type that carries
\* fromUserId, toUserId and a non-null text, goes to the message handlers
\* only; every other event calls no handler.
C26_EventClassification ==
    [][C26_Accepted =>
        LET e == api'.frame.event IN
        api'.ret = IF e.type \in {"mention", "reply"} THEN "mention"
                   ELSE IF e.type = "chat" \/ C26_Inferred(e) THEN "message"
                   ELSE "none"]_vars

\* An event without a type was classified as chat and handed to the message
\* handlers.
C26_Witness ==
    /\ api.call = "frame"
    /\ api.frame.event.type = "none"
    /\ api.ret = "message"

\* ------------------------------------------------------------ C27
\* C27: a disconnect() or close() of a connected client sends a disconnect
\* frame for every subscription while the socket is still there, and leaves
\* the subscription table empty, running false and the duplicate window
\* empty; close() also leaves no socket.  (A step that changes api into a
\* "disconnect" or "close" record is that call.)
C27_GracefulDisconnect ==
    [][(api' # api /\ api'.call \in {"disconnect", "close"}
          /\ IsConnected(streaming))
        => /\ api'.ret = "ok"
           /\ api'.frames = Cardinality(streaming.channels)
           /\ streaming'.channels = {}
           /\ ~streaming'.running
           /\ streaming'.processed_events = <<>>
           /\ (api'.call = "close" => ~WsUsable(streaming'))]_vars

\* ------------------------------------------------------------ C28
\* No id has two rows in a table of the ledger.
C28_OneRow ==
    /\ Cardinality(Range(db.mentions)) = Len(db.mentions)
    /\ Cardinality(Range(db.messages)) = Len(db.messages)

\* Marking an id twice leaves the ledger as marking it once does.
C28_MarkTwice ==
    \A i \in 1..NumIds :
        /\ MarkLedger(MarkLedger(db, i), i) = MarkLedger(db, i)
        /\ IsProcessed(TableOf(db, EventKind(i)), i) => MarkLedger(db, i) = db

\* A handler about to mark an id that is already recorded can complete the
\* write and go on, the ledger being left as it is.
C28_RemarkSucceeds ==
    /\ (msgH.pc = "mark" /\ streaming.message_task = "run"
          /\ IsProcessed(TableOf(db, EventKind(msgH.id)), msgH.id))
         => ENABLED (MsgMarkDone /\ msgH'.pc = "respond" /\ db' = db)
    /\ (pollH.pc = "mark" /\ bot.poll_tasks > 0
          /\ IsProcessed(TableOf(db, EventKind(pollH.id)), pollH.id))
         => ENABLED (PollMarkDone /\ pollH'.pc = "respond" /\ db' = db)

\* C28: marking is idempotent: marking an id that is already recorded
\* raises no error and leaves exactly one row for the id, and marking twice
\* yields the ledger that marking once yields.
C28_IdempotentMarking == C28_OneRow /\ C28_MarkTwice /\ C28_RemarkSucceeds

\* The mention handler of the push transport has marked the same mention
\* for the second time in this run, with no failure and no cleanup: the
\* second write found the row of the first.
C28_Witness ==
    /\ msgH.pc = "respond"
    /\ handled[msgH.id] = 2
    /\ obs.incidents = 0
    /\ run = 1
    /\ db.mentions = <<msgH.id>>

\* ------------------------------------------------------------ C29
\* Before start() has warmed the caches no transport delivers an event: the
\* receive task and the poll task do not exist and no handler runs.
C29_NothingBeforeWarmUp ==
    bot.pc = "new"
        => /\ streaming.message_task # "run"
           /\ bot.poll_tasks = 0
           /\ msgH = Idle
           /\ pollH = Idle

\* The step of start(): after a warm-up whose reads succeeded each cache
\* holds the CacheCap most recent rows of its table and nothing else; after
\* a warm-up whose reads failed the bot has started all the same, with empty
\* caches.
C29_StartStep ==
    (bot.pc = "new" /\ bot'.pc # "new")
        => /\ obs'.warmup = "ok"
                => /\ Range(bot'.processed_mentions)
                        = Range(GetRecent(db.mentions, CacheCap))
                   /\ Range(bot'.processed_messages)
                        = Range(GetRecent(db.messages, CacheCap))
           /\ obs'.warmup # "ok"
                => /\ bot'.pc = "connecting"
                   /\ bot'.processed_mentions = <<>>
                   /\ bot'.processed_messages = <<>>

\* C29: at startup the caches are filled from the ledger with at most
\* CacheCap most recent rows before any transport can deliver an event, and
\* when the warm-up read fails the bot starts with empty caches.
C29_CacheWarmUp == [](C29_NothingBeforeWarmUp) /\ [][C29_StartStep]_vars

\* ------------------------------------------------------------ C30
\* C30: a connect() that raises because the socket connection failed leaves
\* running set; a connect() of a client whose running is set returns at
\* once, without a socket attempt and without changing the client; only
\* after disconnect() cleared running does connect() try the socket again.
\* (A step that changes api into a "connect" record is a call of connect.)
C30_FailedConnectLatches ==
    [][(api' # api /\ api'.call = "connect")
        => /\ (api'.ret = "raise" /\ ~WsUsable(streaming'))
                => (api'.sockets = 1 /\ streaming'.running)
           /\ streaming.running
                => (api'.ret = "ok" /\ api'.sockets = 0
                      /\ streaming' = streaming)
           /\ ~streaming.running => api'.sockets = 1]_vars

\* A connect() has returned at once on a client that has no socket: running
\* was left set by a connect() whose socket connection failed.
C30_Witness ==
    /\ api.call = "connect"
    /\ api.ret = "ok"
    /\ api.sockets = 0
    /\ streaming.running
    /\ streaming.ws_connection = "none"
    /\ streaming.session = "none"

\* ------------------------------------------------------------ C31
\* C31: whatever the unsubscribe send did, once stop() has returned the
\* heartbeat and the receive task are cancelled, the socket and its session
\* are closed, and the API clients and the ledger are closed.
C31_RobustShutdown ==
    bot.pc = "stopped"
        => /\ streaming.heartbeat_task # "run"
           /\ streaming.message_task # "run"
           /\ ~WsUsable(streaming)
           /\ streaming.session # "open"
           /\ obs.apiClosed

\* ------------------------------------------------------------ C32
\* C32: for a mention accepted by the handler the server creates at most
\* one note in reply, whatever the API calls of the handler are answered.
C32_AtMostOneReply == req.kind = "mention" => req.notes <= 1

\* ------------------------------------------------------------ the handlers
\* The handlers of MisskeyBot applied to one event at a time, with the data
\* of the event, every read and write succeeding.  A result names the bot
\* and the ledger afterwards, whether _mark_processed was called and whether
\* the plugin call, the generation and the reply were started.

\* _mark_processed
MarkProcessed(b, d, e) ==
    IF e.kind = "mention"
    THEN [bot |-> [b EXCEPT !.processed_mentions = LRUInsert(@, e.id, CacheCap)],
          db |-> [d EXCEPT !.mentions = LedgerInsert(@, e.id)]]
    ELSE [bot |-> [b EXCEPT !.processed_messages = LRUInsert(@, e.id, CacheCap)],
          db |-> [d EXCEPT !.messages = LedgerInsert(@, e.id)]]

NotHandled(b, d) == [bot |-> b, db |-> d, marked |-> FALSE, responds |-> FALSE]

Marked(b, d, e, responds) ==
    LET m == MarkProcessed(b, d, e) IN
    [bot |-> m.bot, db |-> m.db, marked |-> TRUE, responds |-> responds]

\* _handle_mention without the test of the id, for comparison.
HandleMentionEventAnyId(b, d, c, e) ==
    IF ~c.mention_enabled THEN NotHandled(b, d) ELSE Marked(b, d, e, TRUE)

\* _handle_mention / _process_mention
HandleMentionEvent(b, d, c, e) ==
    IF ~c.mention_enabled THEN NotHandled(b, d)
    ELSE IF e.id = 0 THEN NotHandled(b, d)
    ELSE Marked(b, d, e, TRUE)

\* _process_chat_message; uid is bot_user_id.
ProcessChatMessage(b, d, e, uid) ==
    IF uid # "none" /\ e.sender = uid THEN Marked(b, d, e, FALSE)
    ELSE IF e.sender = "none" \/ ~e.text THEN Marked(b, d, e, FALSE)
    ELSE Marked(b, d, e, TRUE)

\* _handle_message
HandleMessageEvent(b, d, c, e, uid) ==
    IF ~c.chat_enabled THEN NotHandled(b, d)
    ELSE IF e.id = 0 THEN NotHandled(b, d)
    ELSE IF LRUContains(b.processed_messages, e.id)
            \/ IsProcessed(d.messages, e.id)
    THEN NotHandled(b, d)
    ELSE ProcessChatMessage(b, d, e, uid)

\* The handler registered for the kind of the event.
HandleEvent(b, d, c, e, uid) ==
    IF e.kind = "mention" THEN HandleMentionEvent(b, d, c, e)
    ELSE HandleMessageEvent(b, d, c, e, uid)

\* _process_polled_items for one item.
ProcessPolledEvent(b, d, c, e, uid) ==
    IF e.id = 0 \/ LRUContains(CacheOf(b, e.kind), e.id) THEN NotHandled(b, d)
    ELSE IF IsProcessed(TableOf(d, e.kind), e.id) THEN NotHandled(b, d)
    ELSE IF e.fresh THEN HandleEvent(b, d, c, e, uid)
    ELSE Marked(b, d, e, FALSE)

\* _initialize_services: get_current_user returns the bot's id, or fails and
\* bot_user_id stays None.
EventStartup ==
    /\ ev.bot_user_id = "unset"
    /\ \E uid \in {"bot", "none"} : ev' = [ev EXCEPT !.bot_user_id = uid]
    /\ UNCHANGED <<core, retry, notes, poller, pool, autopost>>

\* An event arrives on the main channel: _handle_channel_message drops a
\* duplicate, otherwise tracks the id, if there is one, and calls the
\* handler of the kind.
EventPushed(e) ==
    /\ ev.bot_user_id # "unset"
    /\ IF e.id # 0 /\ IsDuplicateEvent(streaming, e.id)
       THEN /\ ev' = [ev EXCEPT !.path = "push", !.event = e,
                                !.marked = FALSE, !.responds = FALSE]
            /\ UNCHANGED <<streaming, bot, db>>
       ELSE LET r == HandleEvent(bot, db, cfg, e, ev.bot_user_id) IN
            /\ streaming' = IF e.id # 0 THEN TrackEvent(streaming, e.id)
                            ELSE streaming
            /\ bot' = r.bot
            /\ db' = r.db
            /\ ev' = [ev EXCEPT !.path = "push", !.event = e,
                                !.marked = r.marked, !.responds = r.responds]
    /\ UNCHANGED <<cfg, msgH, pollH, run, handled, handledPrev, obs, api, req,
                   notes, poller, pool, autopost, retry>>

\* A poll cycle fetched the event as an item of a page of an enabled kind.
EventPolled(e) ==
    /\ ev.bot_user_id # "unset"
    /\ Enabled(e.kind)
    /\ LET r == ProcessPolledEvent(bot, db, cfg, e, ev.bot_user_id) IN
       /\ bot' = r.bot
       /\ db' = r.db
       /\ ev' = [ev EXCEPT !.path = "pull", !.event = e,
                           !.marked = r.marked, !.responds = r.responds]
    /\ UNCHANGED <<streaming, cfg, msgH, pollH, run, handled, handledPrev, obs,
                   api, req, notes, poller, pool, autopost, retry>>

NextEvent ==
    \/ EventStartup
    \/ \E e \in EventData : EventPushed(e)
    \/ \E e \in EventData : EventPolled(e)

SpecEvent == Init /\ [][NextEvent]_vars

\* ------------------------------------------------------------ C33
\* C33: a chat message whose sender is the bot's own account never starts
\* a plugin call, a generation or a reply, and when it reaches
\* _process_chat_message it is marked processed, in every run, whether or
\* not get_current_user succeeded at startup.
C33_NoSelfReply ==
    (ev.path # "none" /\ ev.event.kind = "message" /\ ev.event.sender = "bot")
        => ~ev.responds

\* ------------------------------------------------------------ C36
\* No dedup structure holds the missing id.
C36_NeverRecorded ==
    /\ 0 \notin Range(streaming.processed_events)
    /\ 0 \notin Range(bot.processed_mentions)
    /\ 0 \notin Range(bot.processed_messages)
    /\ 0 \notin Range(db.mentions)
    /\ 0 \notin Range(db.messages)

\* The delivery of an event without an id, on either path, marks nothing,
\* starts no plugin call, generation or reply, and leaves the window, the
\* caches and the ledger as they were.
C36_NoIdStep ==
    (ev' # ev /\ ev'.path # "none" /\ ev'.event.id = 0)
        => /\ ~ev'.marked
           /\ ~ev'.responds
           /\ streaming' = streaming
           /\ bot' = bot
           /\ db' = db

\* C36: an event with a missing or empty id is never recorded in the
\* window, a cache or the ledger and never starts a plugin call, a
\* generation or a reply, on the push and on the pull path, however often it
\* is delivered.
C36_NoIdNoEffect == [](C36_NeverRecorded) /\ [][C36_NoIdStep]_vars

\* A fresh mention without an id has been delivered on the push path with
\* mentions enabled, after another event had been handled.
C36_Witness ==
    /\ ev.path = "push"
    /\ ev.event.id = 0
    /\ ev.event.kind = "mention"
    /\ ev.event.sender = "other"
    /\ ev.event.text
    /\ cfg.mention_enabled
    /\ db.mentions # <<>>
    /\ ~ev.marked
    /\ ~ev.responds

\* ------------------------------------------------------------ create_note
\* The notes of the server in the order of their creation, each with its
\* visibility, the note it replies to (0: none) and who created it.
Visibilities == {"specified", "followers", "home", "public"}

\* visibility_priority of create_note
VisibilityPriority(v) ==
    CASE v = "specified" -> 0
      [] v = "followers" -> 1
      [] v = "home" -> 2
      [] OTHER -> 3

\* create_note with reply_id: the visibility sent to notes/create for the
\* requested visibility ("none": None), given the visibility of the
\* original note and whether get_note returned it.
ReplyVisibility(requested, original, fetched) ==
    IF fetched
    THEN IF requested = "none" THEN original
         ELSE IF VisibilityPriority(requested) > VisibilityPriority(original)
         THEN original
         ELSE requested
    ELSE IF requested = "none" THEN "home" ELSE requested

\* create_note without reply_id: bot.auto_post.visibility, "public" by
\* default.
PostVisibility(requested) == IF requested = "none" THEN "public" ELSE requested

\* Another user creates a note.
UserCreatesNote(v) ==
    /\ Len(notes) < MaxNotes
    /\ notes' = Append(notes, [visibility |-> v, reply_to |-> 0, by |-> "user"])
    /\ UNCHANGED <<core, retry, ev, poller, pool, autopost>>

\* The bot calls create_note(text, visibility = requested, reply_id) and
\* notes/create succeeds; reply_id = 0 stands for no reply_id.
CreateNote(requested, reply_id, fetched) ==
    /\ Len(notes) < MaxNotes
    /\ reply_id \in 0..Len(notes)
    /\ notes' = Append(notes,
         [visibility |->
              IF reply_id = 0 THEN PostVisibility(requested)
              ELSE ReplyVisibility(requested, notes[reply_id].visibility,
                                   fetched),
          reply_to |-> reply_id, by |-> "bot"])
    /\ UNCHANGED <<core, retry, ev, poller, pool, autopost>>

NextNote ==
    \/ \E v \in Visibilities : UserCreatesNote(v)
    \/ \E requested \in Visibilities \cup {"none"}, reply_id \in 0..MaxNotes,
          fetched \in BOOLEAN : CreateNote(requested, reply_id, fetched)

SpecNote == Init /\ [][NextNote]_vars

\* ------------------------------------------------------------ C34
\* C34: a note the bot created as a reply is never more public than the
\* note it replies to (specified < followers < home < public), whatever
\* visibility was requested and whether or not the original was fetched.
C34_VisibilityNeverWidens ==
    \A k \in 1..Len(notes) :
        (notes[k].by = "bot" /\ notes[k].reply_to # 0)
            => VisibilityPriority(notes[k].visibility)
                 <= VisibilityPriority(notes[notes[k].reply_to].visibility)

\* ------------------------------------------------------------ PollingManager
\* start_polling(), called by a task of its own: it returns at once when
\* running is set; otherwise it sets running and runs _poll_mentions, whose
\* loop condition holds and whose first cycle begins.
StartPolling ==
    /\ poller' =
         IF poller.running THEN poller
         ELSE [poller EXCEPT !.running = TRUE, !.loops = Append(@, "polling")]
    /\ Len(poller.loops) < MaxLoops
    /\ UNCHANGED <<core, retry, ev, notes, pool, autopost>>

\* stop_polling(): running is cleared; no loop is cancelled or awaited.
StopPolling ==
    /\ poller' = [poller EXCEPT !.running = FALSE]
    /\ UNCHANGED <<core, retry, ev, notes, pool, autopost>>

\* The cycle of loop l is over: poll_once goes to its sleep; or it raised an
\* exception of the except clause, after which the loop breaks if running is
\* cleared and sleeps otherwise.
PollCycleDone(l, ok) ==
    /\ l \in 1..Len(poller.loops)
    /\ poller.loops[l] = "polling"
    /\ poller' = [poller EXCEPT !.loops[l] =
                    IF ~ok /\ ~poller.running THEN "ended" ELSE "sleeping"]
    /\ UNCHANGED <<core, retry, ev, notes, pool, autopost>>

\* The sleep of loop l is over: `while self.running` is evaluated.
PollWakes(l) ==
    /\ l \in 1..Len(poller.loops)
    /\ poller.loops[l] = "sleeping"
    /\ poller' = [poller EXCEPT !.loops[l] =
                    IF poller.running THEN "polling" ELSE "ended"]
    /\ UNCHANGED <<core, retry, ev, notes, pool, autopost>>

NextPolling ==
    \/ StartPolling
    \/ StopPolling
    \/ \E l \in 1..MaxLoops, ok \in BOOLEAN : PollCycleDone(l, ok)
    \/ \E l \in 1..MaxLoops : PollWakes(l)

SpecPolling == Init /\ [][NextPolling]_vars

\* ------------------------------------------------------------ C35
\* The loops that have not ended.
C35_Executing == {l \in 1..Len(poller.loops) : poller.loops[l] # "ended"}

\* C35: after any sequence of start_polling and stop_polling at most one
\* poll loop goes on: there are never two loops in a poll cycle at once, and
\* while running is set at most one loop has not ended.
C35_SinglePollLoop ==
    /\ Cardinality({l \in 1..Len(poller.loops) : poller.loops[l] = "polling"}) <= 1
    /\ poller.running => Cardinality(C35_Executing) <= 1

\* ------------------------------------------------------------ ConnectionPool
\* get_connection(): a connection of the queue if there is one; otherwise,
\* under the lock, a new connection while _created_connections is below
\* max_connections; otherwise the caller waits on the queue.
GetConnection ==
    /\ pool.out + pool.waiting < MaxCallers
    /\ pool' =
         IF pool.idle > 0
         THEN [pool EXCEPT !.idle = @ - 1, !.out = @ + 1]
         ELSE IF pool.created < MaxConnections
         THEN [pool EXCEPT !.created = @ + 1, !.out = @ + 1]
         ELSE [pool EXCEPT !.waiting = @ + 1]
    /\ UNCHANGED <<core, retry, ev, notes, poller, autopost>>

\* `await self._pool.get()` of a waiting caller returns a connection that was
\* put into the queue.
GetConnectionResumes ==
    /\ pool.waiting > 0
    /\ pool.idle > 0
    /\ pool' = [pool EXCEPT !.waiting = @ - 1, !.idle = @ - 1, !.out = @ + 1]
    /\ UNCHANGED <<core, retry, ev, notes, poller, autopost>>

\* return_connection(conn): put_nowait; on QueueFull the connection is closed
\* and _created_connections decremented.
ReturnConnection ==
    /\ pool.out > 0
    /\ pool' =
         IF pool.idle < MaxConnections
         THEN [pool EXCEPT !.out = @ - 1, !.idle = @ + 1]
         ELSE [pool EXCEPT !.out = @ - 1, !.created = @ - 1]
    /\ UNCHANGED <<core, retry, ev, notes, poller, autopost>>

\* close_all(): the connections of the queue are taken out and closed, and
\* _created_connections is set to 0.
CloseAll ==
    /\ pool' = [pool EXCEPT !.idle = 0, !.created = 0]
    /\ UNCHANGED <<core, retry, ev, notes, poller, autopost>>

NextPool ==
    \/ GetConnection
    \/ GetConnectionResumes
    \/ ReturnConnection
    \/ CloseAll

SpecPool == Init /\ [][NextPool]_vars

\* ------------------------------------------------------------ C37
\* C37: the open connections of a pool, idle and handed out together, never
\* exceed max_connections, under any interleaving of get_connection,
\* return_connection and close_all.
C37_PoolBound == pool.idle + pool.out <= MaxConnections

\* ------------------------------------------------------------ auto-post
\* _reset_daily_post_count()
ResetDailyPostCount(a) == [a EXCEPT !.posts_today = 0, !.today = a.day]

\* _check_auto_post_limits(): the counter is reset when the UTC date differs
\* from today; the answer is whether posts_today is below the cap.
CheckAutoPostLimits(a) ==
    LET b == IF a.day # a.today THEN ResetDailyPostCount(a) ELSE a
    IN  [state |-> b, ok |-> b.posts_today < MaxPostsPerDay]

\* _setup_scheduler(): _reset_daily_post_count becomes a cron job of hour 0
\* in the time zone of the scheduler, which AsyncIOScheduler() takes from the
\* host: UTC hour h; _auto_post becomes an interval job.
SetupScheduler(h) ==
    /\ autopost.cron_hour = -1
    /\ autopost' = [autopost EXCEPT !.cron_hour = h]
    /\ UNCHANGED <<core, retry, ev, notes, poller, pool>>

\* An hour passes; the cron job runs when its hour begins.
ClockTick ==
    /\ autopost.day < MaxDays \/ autopost.hour < HoursPerDay - 1
    /\ LET last == autopost.hour = HoursPerDay - 1
           a == [autopost EXCEPT !.hour = IF last THEN 0 ELSE @ + 1,
                                 !.day = IF last THEN @ + 1 ELSE @]
       IN  autopost' = IF a.hour = a.cron_hour THEN ResetDailyPostCount(a) ELSE a
    /\ UNCHANGED <<core, retry, ev, notes, poller, pool>>

\* _auto_post() up to its first await: it returns when the bot is not running
\* or the limits say no.
AutoPostBegins(running) ==
    /\ autopost.cron_hour # -1
    /\ autopost.pc = "idle"
    /\ autopost' =
         IF ~running THEN autopost
         ELSE LET c == CheckAutoPostLimits(autopost)
              IN  [c.state EXCEPT !.pc = IF c.ok THEN "posting" ELSE "idle"]
    /\ UNCHANGED <<core, retry, ev, notes, poller, pool>>

\* The rest of _auto_post(): a plugin's content or a generated text is posted
\* with create_note and posts_today incremented ("posted"), or the generation
\* or create_note raised ("failed").
AutoPostEnds(outcome) ==
    /\ autopost.pc = "posting"
    /\ autopost' =
         IF outcome = "posted"
         THEN [autopost EXCEPT !.pc = "idle", !.posts_today = @ + 1,
                               !.created[autopost.day] = @ + 1]
         ELSE [autopost EXCEPT !.pc = "idle"]
    /\ UNCHANGED <<core, retry, ev, notes, poller, pool>>

NextAutoPost ==
    \/ \E h \in 0..(HoursPerDay - 1) : SetupScheduler(h)
    \/ ClockTick
    \/ \E running \in BOOLEAN : AutoPostBegins(running)
    \/ \E outcome \in {"posted", "failed"} : AutoPostEnds(outcome)

SpecAutoPost == Init /\ [][NextAutoPost]_vars

\* ------------------------------------------------------------ C38
\* C38: within one UTC day the auto-posts successfully created never exceed
\* bot.auto_post.max_posts_per_day.
C38_DailyCap == \A d \in 0..MaxDays : autopost.created[d] <= MaxPostsPerDay

\* ------------------------------------------------------------ retry_async
\* A function wrapped by retry_async(max_retries=n), with or without
\* retryable_exceptions, is called.
RetryCall(n, filtered) ==
    /\ retry.pc = "idle"
    /\ retry' = [NoRetry EXCEPT !.pc = "calling", !.n = n, !.filtered = filtered]
    /\ UNCHANGED <<core, ev, notes, poller, pool, autopost>>

\* One invocation of the wrapped function: it returns ("ok"), raises an
\* exception of retryable_exceptions ("retryable") or another one ("other").
\* `if retryable_exceptions and not isinstance(e, retryable_exceptions)`:
\* without retryable_exceptions every exception is retried.
RetryInvoke(outcome) ==
    /\ retry.pc = "calling"
    /\ LET exc == IF outcome = "ok" THEN "none" ELSE outcome
           r == RetryWrapper(retry.n, retry.invocations, exc,
                             ~retry.filtered \/ outcome = "retryable")
       IN  retry' = [retry EXCEPT
                       !.invocations = @ + 1,
                       !.last = outcome,
                       !.pc = CASE r = "return" -> "returned"
                                [] r = "raise" -> "raised"
                                [] OTHER -> "sleeping"]
    /\ UNCHANGED <<core, ev, notes, poller, pool, autopost>>

\* The asyncio.sleep between two attempts is over.
RetrySleepDone ==
    /\ retry.pc = "sleeping"
    /\ retry' = [retry EXCEPT !.pc = "calling"]
    /\ UNCHANGED <<core, ev, notes, poller, pool, autopost>>

\* The caller has the result or the exception.
RetryOver ==
    /\ retry.pc \in {"returned", "raised"}
    /\ retry' = NoRetry
    /\ UNCHANGED <<core, ev, notes, poller, pool, autopost>>

NextRetry ==
    \/ \E n \in 1..MaxRetries, filtered \in BOOLEAN : RetryCall(n, filtered)
    \/ \E outcome \in {"ok", "retryable", "other"} : RetryInvoke(outcome)
    \/ RetrySleepDone
    \/ RetryOver

SpecRetry == Init /\ [][NextRetry]_vars

\* ------------------------------------------------------------ C39
\* At most n invocations; a sleep only when another attempt follows; a
\* returned call ended with a success, a raised one with a failure that was
\* not retryable or was the n-th.
C39_Bounded ==
    /\ retry.invocations <= retry.n
    /\ retry.pc = "sleeping" => retry.invocations < retry.n
    /\ retry.pc = "returned" => retry.last = "ok"
    /\ retry.pc = "raised" =>
         /\ retry.last # "ok"
         /\ \/ retry.filtered /\ retry.last = "other"
            \/ retry.invocations = retry.n

\* An invocation that succeeds ends the call with its result; one that
\* raises an exception outside retryable_exceptions, or the n-th that fails,
\* ends it with the exception, without a sleep; nothing is invoked after the
\* call ended.
C39_Step ==
    /\ retry'.invocations = retry.invocations + 1 =>
         /\ retry'.last = "ok" => retry'.pc = "returned"
         /\ retry.filtered /\ retry'.last = "other" => retry'.pc = "raised"
         /\ retry'.last # "ok" /\ retry'.invocations = retry.n =>
              retry'.pc = "raised"
    /\ retry.pc \in {"returned", "raised"} => retry'.pc \in {retry.pc, "idle"}

\* C39: a function wrapped by retry_async(max_retries = n) is invoked at most
\* n times; the first success is returned and an exception outside
\* retryable_exceptions raised with no further invocation; after n failing
\* invocations the last error is raised and no sleep follows the final one.
C39_BoundedRetry == [](C39_Bounded) /\ [][C39_Step]_vars

\* n = MaxRetries failing invocations, each but the last followed by a sleep,
\* and the error raised.
C39_Witness ==
    /\ retry.pc = "raised"
    /\ retry.n = MaxRetries
    /\ retry.invocations = MaxRetries
    /\ retry.last = "retryable"

\* ------------------------------------------------------------ C40
\* _is_retryable_error: the answers whose status is in RETRYABLE_HTTP_CODES
\* (429, 500, 502, 503, 504).
IsRetryableError(resp) == resp \in {"rate_limit", "unavailable"}

\* C40: a failed request of MisskeyAPI is tried again, up to API_MAX_RETRIES
\* attempts in all, exactly if it failed with a network error or with a
\* status of RETRYABLE_HTTP_CODES; a 401 or 403 and every other status that
\* is not OK fail after a single attempt.
C40_RetryPolicy ==
    [][(req.pc \in {"post", "error1", "error2"} /\ ~req.sleeping /\ req' # req)
       => (req'.sleeping <=>
             /\ req'.last = "lost" \/ IsRetryableError(req'.last)
             /\ req.attempt < API_MAX_RETRIES - 1)]_vars

====
